---- MODULE Spec2Model ----
(***************************************************************************)
(* Coordinate codec and validator of the 16-axis coordinate system.        *)
(*                                                                         *)
(* Frontend helpers: src/frontend/src/lib/types.ts (AXIS_KEYS,             *)
(* createEmptyCoordinate, coordinateToArray, coordinateToNuremberg) and    *)
(* the coordinate page's updateCoordinate (src/unnamed/part_002).          *)
(* Backend model: the AxisCoordinate class of backend/models.py, present   *)
(* as compiled bytecode (src/backend/__pycache__/models.cpython-310.pyc).  *)
(*                                                                         *)
(* A string is a sequence of symbols.  A symbol is either one delimiter    *)
(* character ("|" or ","), one digit, or a run of characters that holds    *)
(* neither delimiter.  An axis value is a tagged record: absent            *)
(* (undefined / None), a string, an integer or a list of strings.          *)
(***************************************************************************)
EXTENDS Integers, Sequences, FiniteSets, TLC

VARIABLES coordinate, edits, ret, hashLog,
          translationText, validationResult, loading, pending,
          axisKeys, axisMetadata,
          calls, locals,
          pathname, isDark, localStorage, darkClass, mounted, prefersDark,
          toggles,
          parameters, weights, expansionRules, targetRoles, roleInput, result,
          baseCoordinate,
          agiQuery, currentConversation, conversations, runs, now,
          simulationResult, systemMetrics, aiHealth

\* state of the coordinate page besides the coordinate itself
pageVars == <<translationText, validationResult, loading, pending>>

\* the process-wide tables: the axis key list and the axis metadata
tableVars == <<axisKeys, axisMetadata>>

\* backend invocations in progress and their local variables
callVars == <<calls, locals>>

\* the navigation bar: the route shown, the theme state of the component,
\* the 'theme' entry of localStorage, the 'dark' class of the document root,
\* whether the mount effect has run, the system colour scheme, and the theme
\* state recorded after each toggleTheme since the document was loaded
navVars == <<pathname, isDark, localStorage, darkClass, mounted, prefersDark,
             toggles>>

\* state of the math and simulation pages besides coordinate, loading and
\* the requests in flight
toolVars == <<parameters, weights, expansionRules, targetRoles, roleInput,
              result, baseCoordinate>>

\* state of the AGI page besides loading; runs holds the handleAGIQuery
\* invocations that have not finished, now is the clock read by Date.now()
agiVars == <<agiQuery, currentConversation, conversations, runs, now,
             simulationResult, systemMetrics, aiHealth>>

siteVars == <<navVars, toolVars, agiVars>>

vars == <<coordinate, edits, ret, hashLog, pageVars, tableVars, callVars,
          siteVars>>

\* Number of updateCoordinate edits explored from each initial coordinate.
MaxEdits == 2

\* Number of hash calls kept in the call log.
MaxCalls == 2

-----------------------------------------------------------------------------
(* Values *)

Absent == [k |-> "absent"]
StrV(s) == [k |-> "str", s |-> s]
IntV(n) == [k |-> "int", n |-> n]
ListV(l) == [k |-> "list", l |-> l]

IsAbsent(v) == v.k = "absent"
IsStr(v) == v.k = "str"
IsInt(v) == v.k = "int"
IsList(v) == v.k = "list"

PIPE == "|"
COMMA == ","

\* Mutation: location and temporal listed before the role axes.
AXIS_KEYS_roleAxesLast ==
  << "pillar", "sector", "honeycomb", "branch", "node",
     "regulatory", "compliance", "compliance_level", "audit_requirements",
     "regulatory_framework",
     "location", "temporal",
     "role_knowledge", "role_sector", "role_regulatory", "role_compliance" >>

\* 16 Axis Keys in order.
AXIS_KEYS ==
  << "pillar", "sector", "honeycomb", "branch", "node",
     "regulatory", "compliance", "compliance_level", "audit_requirements",
     "regulatory_framework",
     "role_knowledge", "role_sector", "role_regulatory", "role_compliance",
     "location", "temporal" >>

AxisKey == { AXIS_KEYS[i] : i \in 1..Len(AXIS_KEYS) }

-----------------------------------------------------------------------------
(* String helpers: Array.prototype.join / str.join, String.prototype.split, *)
(* Number.prototype.toString / str(int).                                    *)

RECURSIVE Join(_, _)
Join(parts, sep) ==
  IF Len(parts) = 0 THEN << >>
  ELSE IF Len(parts) = 1 THEN parts[1]
  ELSE parts[1] \o << sep >> \o Join(Tail(parts), sep)

RECURSIVE SplitFrom(_, _, _, _)
SplitFrom(s, sep, i, cur) ==
  IF i > Len(s) THEN << cur >>
  ELSE IF s[i] = sep THEN << cur >> \o SplitFrom(s, sep, i + 1, << >>)
  ELSE SplitFrom(s, sep, i + 1, Append(cur, s[i]))

Split(s, sep) == SplitFrom(s, sep, 1, << >>)

Digit(d) == << "0", "1", "2", "3", "4", "5", "6", "7", "8", "9" >>[d + 1]

RECURSIVE Digits(_)
Digits(n) ==
  IF n < 10 THEN << Digit(n) >> ELSE Append(Digits(n \div 10), Digit(n % 10))

\* value.toString() / str(value) of a non-list, non-absent value
toString(v) == IF IsInt(v) THEN Digits(v.n) ELSE v.s

-----------------------------------------------------------------------------
(* Frontend helpers, types.ts *)

createEmptyCoordinate ==
  [key \in AxisKey |->
     IF key \in {"pillar", "sector"} THEN StrV(<< >>) ELSE Absent]

\* Mutation: missing axes are left out of the list (filter on undefined).
coordinateToArray_dropsMissing(coord) ==
  SelectSeq([i \in 1..Len(AXIS_KEYS) |-> coord[AXIS_KEYS[i]]],
            LAMBDA v : ~IsAbsent(v))

coordinateToArray(coord) ==
  [i \in 1..Len(AXIS_KEYS) |-> coord[AXIS_KEYS[i]]]

\* Mutation: the list is joined with the field delimiter.
NurembergSlot_pipeJoined(value) ==
  IF IsList(value) THEN Join(value.l, PIPE)
  ELSE IF IsAbsent(value) THEN << >>
  ELSE toString(value)

\* value?.toString() || ''
NurembergSlot(value) ==
  IF IsList(value) THEN Join(value.l, COMMA)
  ELSE IF IsAbsent(value) THEN << >>
  ELSE toString(value)

IsNonEmptySlot(slot) == slot # << >>

\* Mutation: empty slots are dropped before joining (filter(Boolean)).
coordinateToNuremberg_skipEmpty(coord) ==
  Join(SelectSeq([i \in 1..Len(AXIS_KEYS) |-> NurembergSlot(coord[AXIS_KEYS[i]])],
                 IsNonEmptySlot), PIPE)

coordinateToNuremberg(coord) ==
  Join([i \in 1..Len(AXIS_KEYS) |-> NurembergSlot(coord[AXIS_KEYS[i]])], PIPE)

-----------------------------------------------------------------------------
(* Coordinate page, part_002: updateCoordinate(key, value) stores          *)
(* value === '' ? undefined : value under [key] and spreads the rest.      *)

\* Mutation: the value is stored as given, '' included.
updateCoordinate_keepsEmpty(prev, key, value) ==
  [prev EXCEPT ![key] = value]

updateCoordinate(prev, key, value) ==
  [prev EXCEPT ![key] = IF value = StrV(<< >>) THEN Absent ELSE value]

-----------------------------------------------------------------------------
(* Backend model, class AxisCoordinate of models.py (compiled bytecode).   *)

\* as_list: [getattr(self, key, None) for key in AXIS_KEYS]
as_list(self) ==
  [i \in 1..Len(AXIS_KEYS) |-> self[AXIS_KEYS[i]]]

\* One iteration of nuremberg_number's loop: '' for None, ','.join(str(v)
\* for v in value) for a list, str(value) otherwise.
NurembergValue(value) ==
  IF IsAbsent(value) THEN << >>
  ELSE IF IsList(value) THEN Join(value.l, COMMA)
  ELSE toString(value)

nuremberg_number(self) ==
  Join([i \in 1..Len(AXIS_KEYS) |-> NurembergValue(self[AXIS_KEYS[i]])], PIPE)

\* hashlib.sha256(data.encode('utf-8')).hexdigest(): the digest is a pure
\* function of the bytes; SHA-256 is taken to be collision free.
sha256(data) == << "sha256", data >>

\* f"{x}" of a scalar attribute: str(None) is 'None'
FormatValue(value) ==
  IF IsAbsent(value) THEN << "None" >> ELSE toString(value)

\* Python truthiness of an attribute value
Truthy(value) ==
  /\ ~IsAbsent(value)
  /\ IsStr(value) => value.s # << >>
  /\ IsList(value) => value.l # << >>
  /\ IsInt(value) => value.n # 0

\* core_data = f"{self.pillar}|{self.sector}|{self.location or ''}"
unified_system_id(self) ==
  LET core_data ==
        FormatValue(self["pillar"]) \o << PIPE >> \o
        FormatValue(self["sector"]) \o << PIPE >> \o
        (IF Truthy(self["location"]) THEN FormatValue(self["location"])
         ELSE << >>)
  IN sha256(core_data)

\* Mutation: the digest is salted with the time of the call.
coordinate_hash_timestamped(self) ==
  sha256(nuremberg_number(self) \o Digits(edits))

coordinate_hash(self) == sha256(nuremberg_number(self))

\* Mutation: the comparison with '' is missing.
IsFilled_emptyStringCounts(value) ==
  /\ ~IsAbsent(value)
  /\ value # ListV(<< >>)

\* value is not None and value != '' and value != []
IsFilled(value) ==
  /\ ~IsAbsent(value)
  /\ value # StrV(<< >>)
  /\ value # ListV(<< >>)

\* Mutation: only None is skipped, '' and [] are counted.
get_filled_axes_count_notNone(self) ==
  Cardinality({ i \in 1..Len(AXIS_KEYS) : ~IsAbsent(self[AXIS_KEYS[i]]) })

get_filled_axes_count(self) ==
  Cardinality({ i \in 1..Len(AXIS_KEYS) : IsFilled(self[AXIS_KEYS[i]]) })

\* Mutation: the count is divided by the 13 axes of the AxisType enumeration.
get_axis_completeness_ratio_thirteen(self) ==
  [num |-> get_filled_axes_count(self), den |-> Len(AXIS_KEYS) - 3]

\* self.get_filled_axes_count() / len(AXIS_KEYS), as an exact fraction
get_axis_completeness_ratio(self) ==
  [num |-> get_filled_axes_count(self), den |-> Len(AXIS_KEYS)]

-----------------------------------------------------------------------------
(* Validators of AxisCoordinate.  A validator returns its value or raises  *)
(* ValueError; the outcome is a record [ok, v] or [ok, err].               *)

Returns(v) == [ok |-> TRUE, v |-> v]
Raises(msg) == [ok |-> FALSE, err |-> msg]

\* Mutation: the PLxx.x.x pattern of the axis metadata is enforced.
validate_pillar_strict(v) ==
  IF IsAbsent(v) THEN Returns(v)
  ELSE IF IsStr(v) /\ v.s = << "PL01.1.1" >> THEN Returns(v)
  ELSE Raises("Pillar must match PLxx.x.x")

\* Mutation: an empty pillar is rejected by the validator.
validate_pillar_rejectsEmpty(v) ==
  IF v = StrV(<< >>) THEN Raises("Pillar must not be empty") ELSE Returns(v)

\* validate_pillar: 'accept both PLxx.x.x format and natural language';
\* every branch returns v.
validate_pillar(v) ==
  IF IsAbsent(v) THEN Returns(v)
  ELSE IF IsStr(v) /\ Len(v.s) > 0 THEN Returns(v)
  ELSE Returns(v)

\* Symbols of temporal strings
DATE == "2024-01-01"
TIME == "12:30"
SECS == ":00"
OFFSET == "+00:00"
ZULU == "Z"
SEP == "T"
GARBAGE == "not-a-date"

\* Symbols that are one character long
OneChar == { SEP, ZULU, PIPE, COMMA, "A", "B" }

\* str.replace(old, new): every occurrence is replaced
replace(s, old, new) ==
  [i \in 1..Len(s) |-> IF s[i] = old THEN new ELSE s[i]]

\* datetime.fromisoformat (Python 3.10): YYYY-MM-DD, optionally followed by
\* any one character and HH:MM[:SS] with an optional +HH:MM[:SS] offset.
\* TRUE when the string parses, FALSE when ValueError is raised.
fromisoformat(s) ==
  \/ s = << DATE >>
  \/ /\ Len(s) >= 3
     /\ s[1] = DATE
     /\ s[2] \in OneChar
     /\ s[3] = TIME
     /\ LET rest == SubSeq(s, 4, Len(s))
        IN rest \in { << >>, << SECS >>, << OFFSET >>, << SECS, OFFSET >>,
                      << OFFSET, SECS >>, << SECS, OFFSET, SECS >> }

TemporalError == "Temporal must be valid ISO 8601 format"

\* Mutation: the ValueError of the parser is swallowed.
validate_temporal_swallowed(v) == Returns(v)

\* validate_temporal: None passes; otherwise
\* datetime.fromisoformat(v.replace('Z', '+00:00')) must not raise.
validate_temporal(v) ==
  IF IsAbsent(v) THEN Returns(v)
  ELSE IF fromisoformat(replace(toString(v), ZULU, OFFSET)) THEN Returns(v)
  ELSE Raises(TemporalError)

-----------------------------------------------------------------------------
(* Codec operations whose implementation lives in the backend API layer:   *)
(* validate and decode.                                                    *)

IsEmptyValue(v) == IsAbsent(v) \/ v = StrV(<< >>)

AxisError(axis, msg) == [axis |-> axis, msg |-> msg]

\* Report of validate: errors is carried only by an invalid report.
Report(errors) ==
  IF errors = << >> THEN [valid |-> TRUE]
  ELSE [valid |-> FALSE, errors |-> errors]

\* validate: structural checks (pillar, sector non-empty) and the
\* per-field validators, every finding appended to one list.
validate(coord) ==
  LET pillarEmpty ==
        IF IsEmptyValue(coord["pillar"])
        THEN << AxisError("pillar", "pillar must not be empty") >>
        ELSE << >>
      pillarCheck ==
        IF validate_pillar(coord["pillar"]).ok THEN << >>
        ELSE << AxisError("pillar", validate_pillar(coord["pillar"]).err) >>
      sectorEmpty ==
        IF IsEmptyValue(coord["sector"])
        THEN << AxisError("sector", "sector must not be empty") >>
        ELSE << >>
      temporalCheck ==
        IF validate_temporal(coord["temporal"]).ok THEN << >>
        ELSE << AxisError("temporal", validate_temporal(coord["temporal"]).err) >>
  IN Report(pillarEmpty \o pillarCheck \o sectorEmpty \o temporalCheck)

IndexOf(key) == CHOOSE i \in 1..Len(AXIS_KEYS) : AXIS_KEYS[i] = key

\* decode: split on '|' into the positional slots in canonical axis order,
\* then split honeycomb's slot on ','.  An empty slot of an optional axis
\* is an absent axis; pillar and sector are always strings.
decode(nurembergString) ==
  LET parts == Split(nurembergString, PIPE)
      slot(key) == IF IndexOf(key) <= Len(parts) THEN parts[IndexOf(key)]
                   ELSE << >>
  IN [key \in AxisKey |->
        IF key \in {"pillar", "sector"} THEN StrV(slot(key))
        ELSE IF slot(key) = << >> THEN Absent
        ELSE IF key = "honeycomb" THEN ListV(Split(slot(key), COMMA))
        ELSE StrV(slot(key))]

-----------------------------------------------------------------------------
(* Process-wide tables of the backend: AXIS_METADATA of models.py.         *)

AxisMetadataRecord(index, key) == [index |-> index, key |-> key]

\* AXIS_METADATA: List[AxisMetadata] = [AxisMetadata(index=1, key='pillar',
\* ...), ...]; the records as the module body builds them, of which index
\* and key are kept.
AXIS_METADATA ==
  << AxisMetadataRecord(1, "pillar"),
     AxisMetadataRecord(2, "sector"),
     AxisMetadataRecord(3, "honeycomb"),
     AxisMetadataRecord(4, "branch"),
     AxisMetadataRecord(5, "node"),
     AxisMetadataRecord(6, "regulatory"),
     AxisMetadataRecord(7, "compliance"),
     AxisMetadataRecord(8, "role_knowledge"),
     AxisMetadataRecord(9, "role_sector"),
     AxisMetadataRecord(10, "role_regulatory"),
     AxisMetadataRecord(11, "role_compliance"),
     AxisMetadataRecord(12, "location"),
     AxisMetadataRecord(13, "temporal") >>

-----------------------------------------------------------------------------
(* parse: construction of an AxisCoordinate from a raw mapping.  pillar    *)
(* and sector are required fields (Field(...)), the other axes default to  *)
(* None; keys that are not fields of the model are ignored; the validators *)
(* of pillar and temporal run on the values that are given.                *)

RequiredFields == { "pillar", "sector" }

FieldError(loc, msg) == [loc |-> loc, msg |-> msg]

\* the value of a field: the given value, or the default None
FieldValue(raw, key) == IF key \in DOMAIN raw THEN raw[key] ELSE Absent

\* keys outside the fields of the model: ignored (the default of extra)
ExtraErrors(raw) == << >>

parse(raw) ==
  LET missing(key) ==
        IF key \in DOMAIN raw THEN << >>
        ELSE << FieldError(key, "Field required") >>
      pillarErrors ==
        IF "pillar" \notin DOMAIN raw
           \/ validate_pillar(raw["pillar"]).ok THEN << >>
        ELSE << FieldError("pillar", validate_pillar(raw["pillar"]).err) >>
      temporalErrors ==
        IF "temporal" \notin DOMAIN raw
           \/ validate_temporal(raw["temporal"]).ok THEN << >>
        ELSE << FieldError("temporal", validate_temporal(raw["temporal"]).err) >>
      errors == missing("pillar") \o pillarErrors \o missing("sector")
                  \o temporalErrors \o ExtraErrors(raw)
  IN IF errors = << >>
     THEN Returns([key \in AxisKey |-> FieldValue(raw, key)])
     ELSE [ok |-> FALSE, err |-> "ValidationError", errors |-> errors]

-----------------------------------------------------------------------------
(* The coordinate page: handleValidate and handleTranslate.  Both await a  *)
(* request of the API client, which is fulfilled with the JSON body of the *)
(* response or rejected with an Error (ApiError for a response that is not *)
(* ok, TypeError when fetch itself fails).                                 *)

\* useState<...| null>(null)
Null == [k |-> "null"]

SPACE == " "

\* String.prototype.trim
RECURSIVE trim(_)
trim(s) ==
  IF s = << >> THEN s
  ELSE IF Head(s) = SPACE THEN trim(Tail(s))
  ELSE IF s[Len(s)] = SPACE THEN trim(SubSeq(s, 1, Len(s) - 1))
  ELSE s

Fulfilled(value) == [status |-> "fulfilled", value |-> value]
Rejected(reason) == [status |-> "rejected", reason |-> reason]

\* new ApiError(`API request failed: ${status} ${statusText}\n${errorText}`)
ApiError(status, errorText) ==
  [isError |-> TRUE, name |-> "ApiError",
   message |-> << "API request failed: ", status, errorText >>]

\* the rejection of fetch
FetchError ==
  [isError |-> TRUE, name |-> "TypeError", message |-> << "Failed to fetch" >>]

SignatureText == "takes 2 positional arguments but 4 were given"

\* String.prototype.includes, on the chunks of a message
includes(message, needle) == \E i \in DOMAIN message : message[i] = needle

\* error instanceof Error ? error.message : fallback
MessageOf(error, fallback) ==
  IF error.isError THEN error.message ELSE << fallback >>

\* Mutation: handleValidate without its catch block.
handleValidateSettled_noCatch(outcome) ==
  IF outcome.status = "fulfilled"
  THEN [threw |-> FALSE, validationResult |-> outcome.value]
  ELSE [threw |-> TRUE, validationResult |-> Null]

\* handleValidate after the await: setValidationResult(result), or the
\* catch block's setValidationResult({valid: false, errors: [message]}).
handleValidateSettled(outcome) ==
  IF outcome.status = "fulfilled"
  THEN [threw |-> FALSE, validationResult |-> outcome.value]
  ELSE [threw |-> FALSE,
        validationResult |->
          [valid |-> FALSE,
           errors |-> << MessageOf(outcome.reason, "Validation failed") >>]]

\* the errors handleTranslate's catch block reports
TranslateErrors(error) ==
  LET errorMessage == MessageOf(error, "Translation failed")
      isSignatureError == includes(errorMessage, SignatureText)
  IN IF isSignatureError
     THEN << << "Backend API Error: The translation service needs to be updated." >>,
             << "The translate_text_to_coordinate method signature is incorrect." >>,
             << "Please check the backend implementation." >> >>
     ELSE << errorMessage >>

\* Mutation: handleTranslate without its catch block.
handleTranslateSettled_noCatch(outcome) ==
  IF outcome.status = "fulfilled"
  THEN [threw |-> FALSE, setCoordinate |-> << outcome.value.suggested_coordinate >>,
        validationResult |-> [valid |-> TRUE]]
  ELSE [threw |-> TRUE, setCoordinate |-> << >>, validationResult |-> Null]

\* Mutation: success stores an empty errors array next to valid: true.
handleTranslateSettled_emptyErrors(outcome) ==
  IF outcome.status = "fulfilled"
  THEN [threw |-> FALSE, setCoordinate |-> << outcome.value.suggested_coordinate >>,
        validationResult |-> [valid |-> TRUE, errors |-> << >>]]
  ELSE [threw |-> FALSE, setCoordinate |-> << >>,
        validationResult |->
          [valid |-> FALSE, errors |-> TranslateErrors(outcome.reason)]]

\* handleTranslate after the await: setCoordinate(result.suggested_coordinate)
\* and setValidationResult({valid: true}), or the catch block.
handleTranslateSettled(outcome) ==
  IF outcome.status = "fulfilled"
  THEN [threw |-> FALSE, setCoordinate |-> << outcome.value.suggested_coordinate >>,
        validationResult |-> [valid |-> TRUE]]
  ELSE [threw |-> FALSE, setCoordinate |-> << >>,
        validationResult |->
          [valid |-> FALSE, errors |-> TranslateErrors(outcome.reason)]]

-----------------------------------------------------------------------------
(* Effect of the read-only operations on what they are given.              *)

Reverse(s) == [i \in 1..Len(s) |-> s[Len(s) + 1 - i]]

\* Mutation: encode reverses the honeycomb array in place before joining.
ArgumentAfter_reversedInPlace(op, self) ==
  IF op = "encode" /\ IsList(self["honeycomb"])
  THEN [self EXCEPT !["honeycomb"] = ListV(Reverse(self["honeycomb"].l))]
  ELSE self

\* coordinateToArray and coordinateToNuremberg read coord[key] and call map
\* and join, which build new values; as_list, nuremberg_number and
\* get_filled_axes_count read through getattr; none assigns to a field.
ArgumentAfter(op, self) == self

\* AXIS_KEYS.map(...) and 'for key in AXIS_KEYS' leave the key list as it is.
KeysAfter(op, keys) == keys

-----------------------------------------------------------------------------
(* Backend calls step by step.  nuremberg_number runs 'values = []', then  *)
(* 'for key in AXIS_KEYS: values.append(...)', then "'|'.join(values)";    *)
(* validate and decode walk the axes in the same way, collecting findings  *)
(* and field values.  Calls of several requests interleave at every step.  *)

\* Number of backend calls that run at the same time.
MaxParallel == 2

CallIds == 1..MaxParallel

NotStarted == [op |-> "none", arg |-> Null, pc |-> 0, result |-> Null]

\* Mutation: the list the loop appends to is a module-level variable.
LocalsOf_moduleLevel(id) == 1

\* values is a local variable: every invocation has its own list
LocalsOf(id) == id

\* the findings of validate for one axis
ValidateAxis(coord, key) ==
  CASE key = "pillar" ->
         (IF IsEmptyValue(coord["pillar"])
          THEN << AxisError("pillar", "pillar must not be empty") >>
          ELSE << >>) \o
         (IF validate_pillar(coord["pillar"]).ok THEN << >>
          ELSE << AxisError("pillar", validate_pillar(coord["pillar"]).err) >>)
    [] key = "sector" ->
         IF IsEmptyValue(coord["sector"])
         THEN << AxisError("sector", "sector must not be empty") >>
         ELSE << >>
    [] key = "temporal" ->
         IF validate_temporal(coord["temporal"]).ok THEN << >>
         ELSE << AxisError("temporal", validate_temporal(coord["temporal"]).err) >>
    [] OTHER -> << >>

\* the value decode gives an axis from its slot
DecodeSlot(key, slot) ==
  IF key \in {"pillar", "sector"} THEN StrV(slot)
  ELSE IF slot = << >> THEN Absent
  ELSE IF key = "honeycomb" THEN ListV(Split(slot, COMMA))
  ELSE StrV(slot)

SlotAt(nurembergString, i) ==
  IF i <= Len(Split(nurembergString, PIPE))
  THEN Split(nurembergString, PIPE)[i] ELSE << >>

\* what iteration i of the loop adds to the list
CallPiece(op, arg, i) ==
  CASE op = "nuremberg_number" -> << NurembergValue(arg[AXIS_KEYS[i]]) >>
    [] op = "validate" -> ValidateAxis(arg, AXIS_KEYS[i])
    [] op = "decode" -> << DecodeSlot(AXIS_KEYS[i], SlotAt(arg, i)) >>

\* what the call returns from the list
CallResult(op, values) ==
  CASE op = "nuremberg_number" -> Join(values, PIPE)
    [] op = "validate" -> Report(values)
    [] op = "decode" ->
         [key \in AxisKey |->
            IF IndexOf(key) <= Len(values) THEN values[IndexOf(key)] ELSE Absent]

\* the same call run alone on its input
Alone(op, arg) ==
  CASE op = "nuremberg_number" -> nuremberg_number(arg)
    [] op = "validate" -> validate(arg)
    [] op = "decode" -> decode(arg)

-----------------------------------------------------------------------------
(* Navigation bar, components/navigation.tsx: the mount effect and          *)
(* toggleTheme.  The theme lives in three places: the isDark state, the     *)
(* 'theme' entry of localStorage and the 'dark' class of the document root. *)

\* savedTheme === "dark" || (!savedTheme && systemTheme)
shouldBeDark(savedTheme, systemTheme) ==
  savedTheme = StrV(<< "dark" >>)
    \/ (savedTheme \in { Null, StrV(<< >>) } /\ systemTheme)

ThemeState(dark, saved, class) ==
  [isDark |-> dark, localStorage |-> saved, darkClass |-> class]

\* Mutation: localStorage receives the theme that is being left.
toggleTheme_storesOldTheme(dark, saved, class) ==
  ThemeState(~dark, IF dark THEN StrV(<< "dark" >>) ELSE StrV(<< "light" >>), ~dark)

\* newIsDark = !isDark; setIsDark; localStorage.setItem; classList.toggle
toggleTheme(dark, saved, class) ==
  ThemeState(~dark, IF ~dark THEN StrV(<< "dark" >>) ELSE StrV(<< "light" >>), ~dark)

-----------------------------------------------------------------------------
(* JSON.parse on the text of a form field.  A text is a sequence of         *)
(* symbols: a bracket, a brace, ':', ',', a space, a number literal, a      *)
(* string literal, or anything else, which is not a JSON token.             *)

LBRACE == "{"
RBRACE == "}"
LBRACKET == "["
RBRACKET == "]"
COLON == ":"

JsonNumbers == { "1.0", "0.9", "0.8", "0.7", "5" }

JsonStrings == { "\"confidence_threshold\"", "\"max_expansions\"" }

RECURSIVE SkipSpace(_, _)
\* the first position from i on that holds no space
SkipSpace(s, i) ==
  IF i <= Len(s) /\ s[i] = SPACE THEN SkipSpace(s, i + 1) ELSE i

RECURSIVE ParseValue(_, _)
RECURSIVE ParseElements(_, _)
RECURSIVE ParseMembers(_, _)

\* The position after the JSON value that starts at i, or 0 when there is
\* none.
ParseValue(s, i) ==
  IF i > Len(s) THEN 0
  ELSE IF s[i] \in JsonNumbers \cup JsonStrings THEN i + 1
  ELSE IF s[i] = LBRACKET
    THEN LET j == SkipSpace(s, i + 1)
         IN IF j <= Len(s) /\ s[j] = RBRACKET THEN j + 1
            ELSE ParseElements(s, j)
  ELSE IF s[i] = LBRACE
    THEN LET j == SkipSpace(s, i + 1)
         IN IF j <= Len(s) /\ s[j] = RBRACE THEN j + 1
            ELSE ParseMembers(s, j)
  ELSE 0

\* value (',' value)* ']'
ParseElements(s, i) ==
  LET j == ParseValue(s, i)
      k == SkipSpace(s, j)
  IN IF j = 0 \/ k > Len(s) THEN 0
     ELSE IF s[k] = RBRACKET THEN k + 1
     ELSE IF s[k] = COMMA THEN ParseElements(s, SkipSpace(s, k + 1))
     ELSE 0

\* string ':' value (',' string ':' value)* '}'
ParseMembers(s, i) ==
  LET c == SkipSpace(s, i + 1)
      j == IF c <= Len(s) /\ s[c] = COLON
           THEN ParseValue(s, SkipSpace(s, c + 1)) ELSE 0
      k == SkipSpace(s, j)
  IN IF i > Len(s) \/ s[i] \notin JsonStrings \/ j = 0 \/ k > Len(s) THEN 0
     ELSE IF s[k] = RBRACE THEN k + 1
     ELSE IF s[k] = COMMA THEN ParseMembers(s, SkipSpace(s, k + 1))
     ELSE 0

IsNotSpace(sym) == sym # SPACE

\* a parsed JSON value, held as its tokens
JsonV(tokens) == [k |-> "json", tokens |-> tokens]

\* Mutation: the text is passed on without being parsed.
JSONParse_unchecked(text) == Returns(JsonV(SelectSeq(text, IsNotSpace)))

\* JSON.parse(text): the value (its tokens without the white space) or a
\* SyntaxError
JSONParse(text) ==
  LET end == ParseValue(text, SkipSpace(text, 1))
  IN IF end # 0 /\ SkipSpace(text, end) > Len(text)
     THEN Returns(JsonV(SelectSeq(text, IsNotSpace)))
     ELSE Raises("SyntaxError")

\* try { if (text.trim()) { parsed = JSON.parse(text) } } catch { throw new
\* Error(message) }: the parsed value, the default when the text is blank,
\* or the Error thrown
ParseField(text, default, message) ==
  IF trim(text) = << >> THEN Returns(default)
  ELSE IF JSONParse(text).ok THEN Returns(JSONParse(text).v)
  ELSE Raises(message)

-----------------------------------------------------------------------------
(* Math page, part_003: handleCalculate.                                    *)

selectedOperation == "MCW"

\* useState('{}') and useState('[1.0, 0.9, 0.8]')
DefaultParameters == << LBRACE, RBRACE >>
DefaultWeights ==
  << LBRACKET, "1.0", COMMA, SPACE, "0.9", COMMA, SPACE, "0.8", RBRACKET >>

\* new Error(message)
Error(message) ==
  [isError |-> TRUE, name |-> "Error", message |-> << message >>]

\* result stored by the catch block of handleCalculate
CalculateFailed(error) ==
  [operation |-> selectedOperation,
   result |-> Null,
   explanation |-> MessageOf(error, "Calculation failed"),
   metadata |-> [error |-> TRUE]]

\* The part of handleCalculate that runs before the request: the request to
\* send, or the Error thrown by the parsing of a field.
handleCalculateRequest(coord, params, wts) ==
  LET parsedParameters == ParseField(params, JsonV(<< LBRACE, RBRACE >>),
                                     "Invalid parameters JSON")
      parsedWeights == ParseField(wts, Absent, "Invalid weights array")
  IN IF ~parsedParameters.ok THEN Raises(Error(parsedParameters.err))
     ELSE IF ~parsedWeights.ok THEN Raises(Error(parsedWeights.err))
     ELSE Returns([endpoint |-> "/math/play",
                   operation |-> selectedOperation,
                   coordinate |-> coord,
                   parameters |-> parsedParameters.v,
                   weights |-> parsedWeights.v])

\* Mutation: no finally block; the flag is cleared on success only.
handleCalculateSettled_noFinally(outcome) ==
  IF outcome.status = "fulfilled"
  THEN [result |-> outcome.value, loading |-> FALSE]
  ELSE [result |-> CalculateFailed(outcome.reason), loading |-> TRUE]

\* handleCalculate from the point where the request settles, or where the
\* parsing threw: what it stores in result and in loading
handleCalculateSettled(outcome) ==
  IF outcome.status = "fulfilled"
  THEN [result |-> outcome.value, loading |-> FALSE]
  ELSE [result |-> CalculateFailed(outcome.reason), loading |-> FALSE]

-----------------------------------------------------------------------------
(* Simulation page, part_004: addRole, removeRole, quick add and            *)
(* handleSimulate.                                                          *)

\* useState('{"confidence_threshold": 0.7, "max_expansions": 5}')
DefaultExpansionRules ==
  << LBRACE, "\"confidence_threshold\"", COLON, SPACE, "0.7", COMMA, SPACE,
     "\"max_expansions\"", COLON, SPACE, "5", RBRACE >>

\* useState(['Data Scientist', 'Healthcare Expert'])
DefaultRoles == << << "Data Scientist" >>, << "Healthcare Expert" >> >>

\* the first three of the twelve predefined roles
predefinedRoles ==
  << << "Data Scientist" >>, << "Software Engineer" >>,
     << "Healthcare Expert" >> >>

\* Mutation: the role is appended without the includes check.
addRole_noIncludesCheck(roles, input) ==
  IF trim(input) # << >>
  THEN [targetRoles |-> Append(roles, trim(input)), roleInput |-> << >>]
  ELSE [targetRoles |-> roles, roleInput |-> input]

\* addRole: targetRoles and roleInput after the call
addRole(roles, input) ==
  IF trim(input) # << >> /\ ~includes(roles, trim(input))
  THEN [targetRoles |-> Append(roles, trim(input)), roleInput |-> << >>]
  ELSE [targetRoles |-> roles, roleInput |-> input]

\* prev.filter(r => r !== role)
removeRole(roles, role) == SelectSeq(roles, LAMBDA r : r # role)

\* the roles offered by Quick Add Personas
QuickAddRoles(roles) ==
  { predefinedRoles[i] : i \in { j \in DOMAIN predefinedRoles :
                                   ~includes(roles, predefinedRoles[j]) } }

\* result stored by the catch block of handleSimulate
SimulateFailed(base, error) ==
  [expanded_coordinate |-> base,
   persona_activation_score |-> 0,
   axis_mapping_log |-> << MessageOf(error, "Simulation failed") >>,
   crosswalk_mappings |-> << >>,
   confidence_scores |-> << >>]

\* The part of handleSimulate that runs before the request.
handleSimulateRequest(base, roles, rules) ==
  LET parsedRules == ParseField(rules, JsonV(<< LBRACE, RBRACE >>),
                                "Invalid expansion rules JSON")
  IN IF ~parsedRules.ok THEN Raises(Error(parsedRules.err))
     ELSE Returns([endpoint |-> "/axis/simulate",
                   base_coordinate |-> base,
                   target_roles |-> roles,
                   expansion_rules |-> parsedRules.v,
                   include_crosswalks |-> TRUE])

\* handleSimulate from the point where the request settles, or where the
\* parsing threw
handleSimulateSettled(base, outcome) ==
  IF outcome.status = "fulfilled"
  THEN [result |-> outcome.value, loading |-> FALSE]
  ELSE [result |-> SimulateFailed(base, outcome.reason), loading |-> FALSE]

\* !value: undefined and '' are falsy
Falsy(value) == IsAbsent(value) \/ value = StrV(<< >>)

\* disabled attribute of the Simulate button
SimulateDisabled(isLoading, base, roles) ==
  isLoading \/ Falsy(base["pillar"]) \/ Falsy(base["sector"]) \/ Len(roles) = 0

\* disabled attribute of the Calculate button
CalculateDisabled(isLoading, coord) ==
  isLoading \/ Falsy(coord["pillar"]) \/ Falsy(coord["sector"])

-----------------------------------------------------------------------------
(* AGI page, part_001: handleAGIQuery and handleSystemDiagnostics.  A       *)
(* conversation is a record of id, messages, status and session_id, a       *)
(* field that is undefined being absent; a message is a record of role,     *)
(* content and timestamp (its reasoning chain and coordinate analysis are   *)
(* left out).  The handler reads currentConversation and agiQuery as they   *)
(* were in the render in which it was created.                              *)

\* {...null}: an object without fields
EmptyObject ==
  [id |-> Absent, messages |-> Absent, status |-> Absent, session_id |-> Absent]

\* {...conversation}
Spread(conversation) ==
  IF conversation = Null THEN EmptyObject ELSE conversation

\* currentConversation?.messages || []
MessagesOf(conversation) ==
  IF conversation = Null THEN << >> ELSE conversation.messages

\* { id: Date.now().toString(), messages: [], status: 'active' }
newConversation(clock) ==
  [id |-> StrV(Digits(clock)), messages |-> << >>, status |-> "active",
   session_id |-> Absent]

Message(role, content, clock) ==
  [role |-> role, content |-> content, timestamp |-> clock]

\* { ...currentConversation!, messages: [...(currentConversation?.messages
\* || []), userMessage], status: 'reasoning' }
updatedConversation(conversation, query, clock) ==
  [Spread(conversation)
     EXCEPT !.messages = MessagesOf(conversation)
                           \o << Message("user", query, clock) >>,
            !.status = "reasoning"]

DefaultAnswer ==
  << "I have analyzed your query using advanced reasoning and coordinate analysis." >>

\* simulationResponse.answer || default
AnswerOf(simulationResponse) ==
  IF simulationResponse.answer \in { Absent, StrV(<< >>) } THEN DefaultAnswer
  ELSE simulationResponse.answer.s

\* { ...updatedConversation, messages: [...messages, agiResponse],
\* status: 'completed', session_id }
finalConversation(updated, simulationResponse, clock) ==
  [updated
     EXCEPT !.messages = @ \o << Message("agi", AnswerOf(simulationResponse),
                                         clock) >>,
            !.status = "completed",
            !.session_id = simulationResponse.session_id]

\* the updater passed to setConversations
conversationsUpdate(prev, final) ==
  IF \E i \in DOMAIN prev : prev[i].id = final.id
  THEN [i \in DOMAIN prev |-> IF prev[i].id = final.id THEN final ELSE prev[i]]
  ELSE Append(prev, final)

\* { ...currentConversation!, messages: [...(currentConversation?.messages
\* || []), errorMessage], status: 'completed' }
errorConversation(conversation, error, clock) ==
  [Spread(conversation)
     EXCEPT !.messages =
              MessagesOf(conversation)
                \o << Message("system",
                              << "Error processing query: " >>
                                \o MessageOf(error, "Unknown error"),
                              clock) >>,
            !.status = "completed"]

\* setLoading(prev => ({ ...prev, [key]: value }))
setLoadingState(prev, key, value) == [prev EXCEPT ![key] = value]

\* the requests handleAGIQuery awaits, in order
AgiSteps ==
  << "aiTranslateTextToCoordinate", "aiGenerateReasoningChain",
     "enhancedSimulation", "aiExtractKnowledge" >>

-----------------------------------------------------------------------------
(* Inputs *)

A == << "A" >>
B == << "B" >>

ValidTemporal == << DATE, SEP, TIME, ZULU >>

\* Values typed into the builder or sent as JSON, per axis.
EditValues(key) ==
  CASE key = "pillar" ->
         { StrV(<< >>), StrV(<< "PL01.1.1" >>), StrV(<< "natural language" >>) }
    [] key = "sector" -> { StrV(<< >>), StrV(<< "5", "4" >>) }
    [] key = "honeycomb" ->
         { ListV(<< >>), ListV(<< << >> >>), ListV(<< A >>), ListV(<< A, B >>),
           ListV(<< A, << >> >>), ListV(<< << "A", COMMA, "B" >> >>) }
    [] key = "temporal" ->
         { StrV(<< >>), StrV(ValidTemporal), StrV(<< GARBAGE >>),
           StrV(<< DATE, SEP, TIME, ZULU, SECS >>) }
    [] key = "regulatory" -> { StrV(<< >>), StrV(A), StrV(<< "A", PIPE, "B" >>) }
    [] OTHER -> { StrV(<< >>), StrV(A) }

ExampleCoordinate(sector) ==
  [createEmptyCoordinate EXCEPT !["pillar"] = StrV(<< "PL01.1.1" >>),
                                !["sector"] = sector]

FullCoordinate ==
  [key \in AxisKey |->
     CASE key = "pillar" -> StrV(<< "PL01.1.1" >>)
       [] key = "sector" -> StrV(<< "5", "4" >>)
       [] key = "honeycomb" -> ListV(<< A, B >>)
       [] key = "temporal" -> StrV(ValidTemporal)
       [] OTHER -> StrV(A)]

BlankCoordinate ==
  [key \in AxisKey |-> IF key = "honeycomb" THEN ListV(<< >>) ELSE StrV(<< >>)]

\* Coordinates as they arrive from client JSON or a translation result.
CoordInputs ==
  { createEmptyCoordinate, ExampleCoordinate(IntV(54)), ExampleCoordinate(IntV(0)),
    ExampleCoordinate(StrV(<< "5", "4" >>)), FullCoordinate, BlankCoordinate }

-----------------------------------------------------------------------------
(* State machine of the codec: one coordinate, the operations applied to   *)
(* it, and ret, the value returned by the last operation.                  *)

NoRet == [op |-> "none"]

\* the page as first rendered
PageInit ==
  /\ translationText = << >>
  /\ validationResult = Null
  /\ loading = FALSE
  /\ pending = << >>

\* the tables as the modules define them
TablesInit ==
  /\ axisKeys = AXIS_KEYS
  /\ axisMetadata = AXIS_METADATA

\* no backend call has started
CallsInit ==
  /\ calls = [id \in CallIds |-> NotStarted]
  /\ locals = [id \in CallIds |-> << >>]

\* the navigation bar before its mount effect, on the page at path
NavAt(path) ==
  /\ pathname = path
  /\ isDark = FALSE
  /\ localStorage = Null
  /\ darkClass = FALSE
  /\ mounted = FALSE
  /\ prefersDark = FALSE
  /\ toggles = << >>

NavInit == NavAt("/coordinate")

\* the fields of the math and simulation pages as first rendered
ToolsInit ==
  /\ parameters = DefaultParameters
  /\ weights = DefaultWeights
  /\ expansionRules = DefaultExpansionRules
  /\ targetRoles = DefaultRoles
  /\ roleInput = << >>
  /\ result = Null
  /\ baseCoordinate = createEmptyCoordinate

\* the AGI page as first rendered
AgiInit ==
  /\ agiQuery = << >>
  /\ currentConversation = Null
  /\ conversations = << >>
  /\ runs = << >>
  /\ now = 0
  /\ simulationResult = Null
  /\ systemMetrics = Null
  /\ aiHealth = Null

SiteInit ==
  /\ NavInit
  /\ ToolsInit
  /\ AgiInit

\* a read-only operation: what it leaves of its argument and of the key list
ReadOnly(op) ==
  /\ coordinate' = ArgumentAfter(op, coordinate)
  /\ axisKeys' = KeysAfter(op, axisKeys)
  /\ UNCHANGED <<edits, hashLog, pageVars, axisMetadata, callVars, siteVars>>

Init ==
  /\ coordinate \in CoordInputs
  /\ edits = 0
  /\ ret = NoRet
  /\ hashLog = << >>
  /\ PageInit
  /\ TablesInit
  /\ CallsInit
  /\ SiteInit

UpdateCoordinate(key, value) ==
  /\ edits < MaxEdits
  /\ coordinate' = updateCoordinate(coordinate, key, value)
  /\ edits' = edits + 1
  /\ ret' = [op |-> "updateCoordinate", key |-> key, value |-> value,
             wasFilled |-> IsFilled(coordinate[key])]
  /\ UNCHANGED <<hashLog, pageVars, tableVars, callVars, siteVars>>

Encode ==
  /\ ret' = [op |-> "encode", out |-> coordinateToNuremberg(coordinate)]
  /\ ReadOnly("encode")

AsList ==
  /\ ret' = [op |-> "as_list", out |-> coordinateToArray(coordinate)]
  /\ ReadOnly("as_list")

NurembergNumber ==
  /\ ret' = [op |-> "nuremberg_number", out |-> nuremberg_number(coordinate)]
  /\ ReadOnly("nuremberg_number")

Decode ==
  /\ ret.op \in {"encode", "nuremberg_number"}
  /\ ret' = [op |-> "decode", in |-> ret.out, out |-> decode(ret.out)]
  /\ UNCHANGED <<coordinate, edits, hashLog, pageVars, tableVars, callVars, siteVars>>

Completeness ==
  /\ ret' = [op |-> "completeness",
             filled |-> get_filled_axes_count(coordinate),
             out |-> get_axis_completeness_ratio(coordinate)]
  /\ ReadOnly("completeness")

Validate ==
  /\ ret' = [op |-> "validate", out |-> validate(coordinate)]
  /\ ReadOnly("validate")

Next ==
  \/ \E key \in AxisKey : \E value \in EditValues(key) :
       UpdateCoordinate(key, value)
  \/ Encode
  \/ AsList
  \/ NurembergNumber
  \/ Decode
  \/ Completeness
  \/ Validate

Spec == Init /\ [][Next]_vars

-----------------------------------------------------------------------------
(* State machine of the identifiers: coordinate_hash and unified_system_id *)
(* are called on coordinate objects that are rebuilt between calls; every  *)
(* call is appended to hashLog with the edit count at the time of the call.*)

HashKeys == { "pillar", "sector", "location", "regulatory", "compliance",
              "compliance_level" }

HashInputs ==
  { createEmptyCoordinate, ExampleCoordinate(IntV(54)),
    ExampleCoordinate(StrV(<< "5", "4" >>)), FullCoordinate }

InitHash ==
  /\ coordinate \in HashInputs
  /\ edits = 0
  /\ ret = NoRet
  /\ hashLog = << >>
  /\ PageInit
  /\ TablesInit
  /\ CallsInit
  /\ SiteInit

HashCall(fn, out) ==
  /\ Len(hashLog) < MaxCalls
  /\ hashLog' = Append(hashLog, [fn |-> fn, at |-> edits, self |-> coordinate,
                                 out |-> out])
  /\ ret' = [op |-> fn, out |-> out]
  /\ UNCHANGED <<coordinate, edits, pageVars, tableVars, callVars, siteVars>>

CoordinateHash == HashCall("coordinate_hash", coordinate_hash(coordinate))

UnifiedSystemId == HashCall("unified_system_id", unified_system_id(coordinate))

\* pillar and sector are required fields of the backend model
RebuildCoordinate(key, value) ==
  /\ key \in {"pillar", "sector"} => value # StrV(<< >>)
  /\ UpdateCoordinate(key, value)

NextHash ==
  \/ \E key \in HashKeys : \E value \in EditValues(key) :
       RebuildCoordinate(key, value)
  \/ CoordinateHash
  \/ UnifiedSystemId

SpecHash == InitHash /\ [][NextHash]_vars

-----------------------------------------------------------------------------
(* State machine of the coordinate page: the handlers start a request and  *)
(* continue when it settles; requests settle in any order.                 *)

\* Number of requests of the page that are in flight at the same time.
MaxPending == 1

\* texts typed into the translation box
Texts ==
  { << >>, << SPACE >>, << SPACE, "hospital records", SPACE >>, << GARBAGE >> }

PageKeys == { "pillar", "sector", "temporal" }

PageValues(key) ==
  CASE key = "pillar" -> { StrV(<< >>), StrV(<< "PL01.1.1" >>) }
    [] key = "sector" -> { StrV(<< "5", "4" >>) }
    [] key = "temporal" -> { StrV(ValidTemporal), StrV(<< GARBAGE >>) }

\* coordinates the translation service suggests
TranslationResults ==
  { createEmptyCoordinate, ExampleCoordinate(StrV(<< "5", "4" >>)), FullCoordinate }

\* how POST /axis/validate can settle
ValidateOutcomes(arg) ==
  { Fulfilled(validate(arg)),
    Rejected(ApiError("422 Unprocessable Entity", "Field required")),
    Rejected(FetchError) }

\* how POST /axis/translate can settle
TranslateOutcomes ==
  { Fulfilled([suggested_coordinate |-> c]) : c \in TranslationResults } \cup
  { Rejected(ApiError("500 Internal Server Error", SignatureText)),
    Rejected(ApiError("500 Internal Server Error", "Internal Server Error")),
    Rejected(FetchError) }

Without(s, i) == SubSeq(s, 1, i - 1) \o SubSeq(s, i + 1, Len(s))

InitPage ==
  /\ coordinate = createEmptyCoordinate
  /\ edits = 0
  /\ ret = NoRet
  /\ hashLog = << >>
  /\ PageInit
  /\ TablesInit
  /\ CallsInit
  /\ SiteInit

SetTranslationText(text) ==
  /\ text # translationText
  /\ translationText' = text
  /\ ret' = [op |-> "setTranslationText"]
  /\ UNCHANGED <<coordinate, edits, hashLog, validationResult, loading, pending,
                 tableVars, callVars, siteVars>>

HandleValidate ==
  /\ Len(pending) < MaxPending
  /\ loading' = TRUE
  /\ pending' = Append(pending, [handler |-> "handleValidate", arg |-> coordinate])
  /\ ret' = [op |-> "handleValidate", phase |-> "await", settled |-> FALSE]
  /\ UNCHANGED <<coordinate, edits, hashLog, translationText, validationResult,
                 tableVars, callVars, siteVars>>

\* if (!translationText.trim()) return
HandleTranslateBlank ==
  /\ trim(translationText) = << >>
  /\ ret' = [op |-> "handleTranslate", phase |-> "returned", settled |-> FALSE,
             arg |-> translationText, threw |-> FALSE]
  /\ UNCHANGED <<coordinate, edits, hashLog, pageVars, tableVars, callVars, siteVars>>

HandleTranslate ==
  /\ trim(translationText) # << >>
  /\ Len(pending) < MaxPending
  /\ loading' = TRUE
  /\ pending' = Append(pending, [handler |-> "handleTranslate",
                                 arg |-> translationText])
  /\ ret' = [op |-> "handleTranslate", phase |-> "await", settled |-> FALSE]
  /\ UNCHANGED <<coordinate, edits, hashLog, translationText, validationResult,
                 tableVars, callVars, siteVars>>

SettleValidate(i) ==
  /\ pending[i].handler = "handleValidate"
  /\ \E outcome \in ValidateOutcomes(pending[i].arg) :
       LET r == handleValidateSettled(outcome)
       IN /\ validationResult' =
               IF r.threw THEN validationResult ELSE r.validationResult
          /\ ret' = [op |-> "handleValidate", phase |-> "returned",
                     settled |-> TRUE, status |-> outcome.status,
                     arg |-> pending[i].arg, threw |-> r.threw]
  /\ loading' = FALSE
  /\ pending' = Without(pending, i)
  /\ UNCHANGED <<coordinate, edits, hashLog, translationText, tableVars, callVars, siteVars>>

SettleTranslate(i) ==
  /\ pending[i].handler = "handleTranslate"
  /\ \E outcome \in TranslateOutcomes :
       LET r == handleTranslateSettled(outcome)
       IN /\ validationResult' =
               IF r.threw THEN validationResult ELSE r.validationResult
          /\ coordinate' =
               IF r.setCoordinate = << >> THEN coordinate ELSE r.setCoordinate[1]
          /\ ret' = [op |-> "handleTranslate", phase |-> "returned",
                     settled |-> TRUE, status |-> outcome.status,
                     arg |-> pending[i].arg, threw |-> r.threw]
  /\ loading' = FALSE
  /\ pending' = Without(pending, i)
  /\ UNCHANGED <<edits, hashLog, translationText, tableVars, callVars, siteVars>>

NextPage ==
  \/ \E key \in PageKeys : \E value \in PageValues(key) :
       UpdateCoordinate(key, value)
  \/ \E text \in Texts : SetTranslationText(text)
  \/ HandleValidate
  \/ HandleTranslateBlank
  \/ HandleTranslate
  \/ \E i \in DOMAIN pending : SettleValidate(i)
  \/ \E i \in DOMAIN pending : SettleTranslate(i)

SpecPage == InitPage /\ [][NextPage]_vars

-----------------------------------------------------------------------------
(* State machine of parse: raw mappings are parsed, and the coordinate     *)
(* that results is validated.                                              *)

\* a raw mapping: each argument is << >> (key not given) or << value >>
RawOf(pillar, sector, temporal, honeycomb, extra) ==
  LET given == [ pillar |-> pillar, sector |-> sector, temporal |-> temporal,
                 honeycomb |-> honeycomb, session_id |-> extra ]
  IN [key \in { k \in DOMAIN given : given[k] # << >> } |-> given[key][1]]

RawInputs ==
  { RawOf(pillar, sector, temporal, honeycomb, extra) :
      pillar \in { << >>, << StrV(<< >>) >>, << StrV(<< "PL01.1.1" >>) >> },
      sector \in { << >>, << StrV(<< >>) >>, << StrV(<< "5", "4" >>) >>,
                   << IntV(54) >> },
      temporal \in { << >>, << StrV(ValidTemporal) >>, << StrV(<< GARBAGE >>) >>,
                     << StrV(<< DATE, SEP, TIME, ZULU, SECS >>) >> },
      honeycomb \in { << >>, << ListV(<< A, B >>) >> },
      extra \in { << >>, << StrV(A) >> } }

Parse(raw) ==
  /\ LET out == parse(raw)
     IN /\ ret' = [op |-> "parse", raw |-> raw, out |-> out]
        /\ coordinate' = IF out.ok THEN out.v ELSE coordinate
  /\ UNCHANGED <<edits, hashLog, pageVars, tableVars, callVars, siteVars>>

NextParse ==
  \/ \E raw \in RawInputs : Parse(raw)
  \/ Validate

SpecParse == InitPage /\ [][NextParse]_vars

-----------------------------------------------------------------------------
(* State machine of the backend calls that run at the same time.           *)

CallInputs(op) ==
  CASE op = "nuremberg_number" ->
         { FullCoordinate, ExampleCoordinate(IntV(54)) }
    [] op = "validate" ->
         { [createEmptyCoordinate EXCEPT !["temporal"] = StrV(<< GARBAGE >>)] }
    [] op = "decode" -> { nuremberg_number(FullCoordinate) }

StartCall(id, op, arg) ==
  /\ calls[id].op = "none"
  /\ calls' = [calls EXCEPT ![id] = [op |-> op, arg |-> arg, pc |-> 1,
                                     result |-> Null]]
  /\ locals' = [locals EXCEPT ![LocalsOf(id)] = << >>]
  /\ UNCHANGED <<coordinate, edits, ret, hashLog, pageVars, tableVars, siteVars>>

StepCall(id) ==
  /\ calls[id].pc \in 1..Len(AXIS_KEYS)
  /\ locals' = [locals EXCEPT ![LocalsOf(id)] =
                  @ \o CallPiece(calls[id].op, calls[id].arg, calls[id].pc)]
  /\ calls' = [calls EXCEPT ![id].pc = @ + 1]
  /\ UNCHANGED <<coordinate, edits, ret, hashLog, pageVars, tableVars, siteVars>>

ReturnCall(id) ==
  /\ calls[id].pc = Len(AXIS_KEYS) + 1
  /\ calls' = [calls EXCEPT
                 ![id].pc = @ + 1,
                 ![id].result = CallResult(calls[id].op, locals[LocalsOf(id)])]
  /\ UNCHANGED <<coordinate, edits, ret, hashLog, pageVars, tableVars, locals,
                 siteVars>>

NextCalls ==
  \/ \E id \in CallIds : \E op \in {"nuremberg_number", "validate", "decode"} :
       \E arg \in CallInputs(op) : StartCall(id, op, arg)
  \/ \E id \in CallIds : StepCall(id)
  \/ \E id \in CallIds : ReturnCall(id)

SpecCalls == InitPage /\ [][NextCalls]_vars

-----------------------------------------------------------------------------
(* State machine of encode on coordinates that are rebuilt between calls;  *)
(* every call is appended to hashLog.                                      *)

EncodeKeys == { "sector", "honeycomb", "branch", "node", "regulatory",
                "compliance" }

EncodeValues(key) ==
  CASE key = "sector" -> { StrV(<< "5", "4" >>) }
    [] key = "honeycomb" ->
         { ListV(<< >>), ListV(<< << >> >>), ListV(<< A, B >>),
           ListV(<< << "A", COMMA, "B" >> >>) }
    [] key = "regulatory" -> { StrV(A), StrV(<< "A", PIPE, "B" >>) }
    [] key = "compliance" -> { StrV(B), StrV(<< "B", PIPE, "B" >>) }
    [] OTHER -> { StrV(<< >>), StrV(A) }

PipedCoordinate ==
  [ExampleCoordinate(StrV(<< "5", "4" >>)) EXCEPT
     !["regulatory"] = StrV(<< "A", PIPE, "B" >>), !["compliance"] = StrV(B)]

BranchCoordinate ==
  [ExampleCoordinate(StrV(<< "5", "4" >>)) EXCEPT !["branch"] = StrV(A)]

EncodeInputs ==
  { createEmptyCoordinate, ExampleCoordinate(IntV(54)),
    ExampleCoordinate(StrV(<< "5", "4" >>)), PipedCoordinate, BranchCoordinate }

InitEncode ==
  /\ coordinate \in EncodeInputs
  /\ edits = 0
  /\ ret = NoRet
  /\ hashLog = << >>
  /\ PageInit
  /\ TablesInit
  /\ CallsInit
  /\ SiteInit

EncodeCall == HashCall("encode", coordinateToNuremberg(coordinate))

NextEncode ==
  \/ \E key \in EncodeKeys : \E value \in EncodeValues(key) :
       UpdateCoordinate(key, value)
  \/ EncodeCall

SpecEncode == InitEncode /\ [][NextEncode]_vars

-----------------------------------------------------------------------------
(* State machine of the navigation bar: the document is loaded, the mount   *)
(* effect runs, the theme button is clicked, links are followed, and the    *)
(* document is reloaded, which keeps localStorage and nothing else.         *)

\* Number of toggleTheme calls between two loads of the document.
MaxToggles == 3

Routes == { "/", "/axis", "/coordinate", "/math", "/simulation", "/advanced" }

\* what the 'theme' entry of localStorage holds when the document is loaded
SavedThemes ==
  { Null, StrV(<< >>), StrV(<< "dark" >>), StrV(<< "light" >>),
    StrV(<< "system" >>) }

InitNav ==
  /\ coordinate = createEmptyCoordinate
  /\ edits = 0
  /\ ret = NoRet
  /\ hashLog = << >>
  /\ PageInit
  /\ TablesInit
  /\ CallsInit
  /\ pathname \in Routes
  /\ isDark = FALSE
  /\ localStorage \in SavedThemes
  /\ darkClass = FALSE
  /\ mounted = FALSE
  /\ prefersDark \in BOOLEAN
  /\ toggles = << >>
  /\ ToolsInit
  /\ AgiInit

\* useEffect(() => {...}, [])
MountEffect ==
  /\ ~mounted
  /\ mounted' = TRUE
  /\ isDark' = shouldBeDark(localStorage, prefersDark)
  /\ darkClass' = shouldBeDark(localStorage, prefersDark)
  /\ ret' = [op |-> "useEffect"]
  /\ UNCHANGED <<coordinate, edits, hashLog, pageVars, tableVars, callVars,
                 pathname, localStorage, prefersDark, toggles, toolVars, agiVars>>

ToggleTheme ==
  /\ mounted
  /\ Len(toggles) < MaxToggles
  /\ LET after == toggleTheme(isDark, localStorage, darkClass)
     IN /\ isDark' = after.isDark
        /\ localStorage' = after.localStorage
        /\ darkClass' = after.darkClass
        /\ toggles' = Append(toggles, after)
  /\ ret' = [op |-> "toggleTheme"]
  /\ UNCHANGED <<coordinate, edits, hashLog, pageVars, tableVars, callVars,
                 pathname, mounted, prefersDark, toolVars, agiVars>>

\* a Link of the bar is followed
FollowLink(href) ==
  /\ href # pathname
  /\ pathname' = href
  /\ ret' = [op |-> "Link"]
  /\ UNCHANGED <<coordinate, edits, hashLog, pageVars, tableVars, callVars,
                 isDark, localStorage, darkClass, mounted, prefersDark, toggles,
                 toolVars, agiVars>>

\* the document is loaded again
Reload ==
  /\ mounted
  /\ mounted' = FALSE
  /\ isDark' = FALSE
  /\ darkClass' = FALSE
  /\ toggles' = << >>
  /\ ret' = [op |-> "reload"]
  /\ UNCHANGED <<coordinate, edits, hashLog, pageVars, tableVars, callVars,
                 pathname, localStorage, prefersDark, toolVars, agiVars>>

NextNav ==
  \/ MountEffect
  \/ ToggleTheme
  \/ \E href \in Routes : FollowLink(href)
  \/ Reload

SpecNav == InitNav /\ [][NextNav]_vars

-----------------------------------------------------------------------------
(* State machine of the math and simulation pages: the fields are edited,   *)
(* an example is loaded, roles are added and removed, and handleCalculate   *)
(* and handleSimulate run from the click to the settling of the request.    *)

\* Length that targetRoles can reach.
MaxRoles == 3

\* texts typed into the parameters, weights and expansion-rules fields
ParameterTexts == { DefaultParameters, << SPACE >>, << LBRACE >> }

WeightTexts ==
  { DefaultWeights, << >>, << LBRACKET, "1.0", COMMA, RBRACKET >> }

RuleTexts ==
  { DefaultExpansionRules, << SPACE, SPACE >>,
    << LBRACE, "\"max_expansions\"", "5", RBRACE >> }

\* texts typed into the role box
RoleTexts ==
  { << >>, << SPACE >>, << SPACE, "Software Engineer", SPACE >>,
    << "Data Scientist" >> }

\* coordinates of GET /examples
Examples == { ExampleCoordinate(StrV(<< "5", "4" >>)), FullCoordinate }

\* how POST /math/play can settle
CalculateOutcomes ==
  { Fulfilled([operation |-> selectedOperation, result |-> JsonV(<< "0.9" >>),
               explanation |-> << "weighted mean" >>,
               metadata |-> [error |-> FALSE]]),
    Rejected(ApiError("422 Unprocessable Entity", "Field required")),
    Rejected(FetchError) }

\* how POST /axis/simulate can settle
SimulateOutcomes(request) ==
  { Fulfilled([expanded_coordinate |-> FullCoordinate,
               persona_activation_score |-> 1,
               axis_mapping_log |-> << << "expanded" >> >>,
               crosswalk_mappings |-> << >>,
               confidence_scores |-> << >>]),
    Rejected(ApiError("500 Internal Server Error", "Internal Server Error")) }

InitTools ==
  /\ coordinate \in { createEmptyCoordinate } \cup Examples
  /\ edits = 0
  /\ ret = NoRet
  /\ hashLog = << >>
  /\ PageInit
  /\ TablesInit
  /\ CallsInit
  /\ pathname \in { "/math", "/simulation" }
  /\ isDark = FALSE
  /\ localStorage = Null
  /\ darkClass = FALSE
  /\ mounted = TRUE
  /\ prefersDark = FALSE
  /\ toggles = << >>
  /\ ToolsInit
  /\ AgiInit

SetParameters(text) ==
  /\ pathname = "/math"
  /\ text # parameters
  /\ parameters' = text
  /\ ret' = [op |-> "setParameters"]
  /\ UNCHANGED <<coordinate, edits, hashLog, pageVars, tableVars, callVars,
                 navVars, weights, expansionRules, targetRoles, roleInput,
                 result, baseCoordinate, agiVars>>

SetWeights(text) ==
  /\ pathname = "/math"
  /\ text # weights
  /\ weights' = text
  /\ ret' = [op |-> "setWeights"]
  /\ UNCHANGED <<coordinate, edits, hashLog, pageVars, tableVars, callVars,
                 navVars, parameters, expansionRules, targetRoles, roleInput,
                 result, baseCoordinate, agiVars>>

\* loadExample of the math page
LoadMathExample(example) ==
  /\ pathname = "/math"
  /\ example # coordinate
  /\ coordinate' = example
  /\ ret' = [op |-> "loadExample"]
  /\ UNCHANGED <<edits, hashLog, pageVars, tableVars, callVars, siteVars>>

\* Calculate is clicked and every field parses: the request is sent
HandleCalculate ==
  /\ pathname = "/math"
  /\ ~CalculateDisabled(loading, coordinate)
  /\ LET request == handleCalculateRequest(coordinate, parameters, weights)
     IN /\ request.ok
        /\ pending' = Append(pending, [handler |-> "handleCalculate",
                                       arg |-> request.v])
  /\ loading' = TRUE
  /\ ret' = [op |-> "handleCalculate", phase |-> "await", settled |-> FALSE]
  /\ UNCHANGED <<coordinate, edits, hashLog, translationText, validationResult,
                 tableVars, callVars, siteVars>>

\* Calculate is clicked and a field does not parse: the Error thrown is
\* caught by the handler's own catch block
HandleCalculateInvalid ==
  /\ pathname = "/math"
  /\ ~CalculateDisabled(loading, coordinate)
  /\ LET request == handleCalculateRequest(coordinate, parameters, weights)
         r == handleCalculateSettled(Rejected(request.err))
     IN /\ ~request.ok
        /\ result' = r.result
        /\ loading' = r.loading
  /\ ret' = [op |-> "handleCalculate", phase |-> "returned", settled |-> FALSE]
  /\ UNCHANGED <<coordinate, edits, hashLog, translationText, validationResult,
                 pending, tableVars, callVars, navVars, parameters, weights,
                 expansionRules, targetRoles, roleInput, baseCoordinate, agiVars>>

SettleCalculate(i) ==
  /\ pending[i].handler = "handleCalculate"
  /\ \E outcome \in CalculateOutcomes :
       LET r == handleCalculateSettled(outcome)
       IN /\ result' = r.result
          /\ loading' = r.loading
          /\ ret' = [op |-> "handleCalculate", phase |-> "returned",
                     settled |-> TRUE, status |-> outcome.status]
  /\ pending' = Without(pending, i)
  /\ UNCHANGED <<coordinate, edits, hashLog, translationText, validationResult,
                 tableVars, callVars, navVars, parameters, weights,
                 expansionRules, targetRoles, roleInput, baseCoordinate, agiVars>>

SetRoleInput(text) ==
  /\ pathname = "/simulation"
  /\ text # roleInput
  /\ roleInput' = text
  /\ ret' = [op |-> "setRoleInput"]
  /\ UNCHANGED <<coordinate, edits, hashLog, pageVars, tableVars, callVars,
                 navVars, parameters, weights, expansionRules, targetRoles,
                 result, baseCoordinate, agiVars>>

\* the Add button or the Enter key of the role box
AddRole ==
  /\ pathname = "/simulation"
  /\ Len(targetRoles) < MaxRoles
  /\ LET r == addRole(targetRoles, roleInput)
     IN /\ targetRoles' = r.targetRoles
        /\ roleInput' = r.roleInput
  /\ ret' = [op |-> "addRole", role |-> roleInput]
  /\ UNCHANGED <<coordinate, edits, hashLog, pageVars, tableVars, callVars,
                 navVars, parameters, weights, expansionRules, result,
                 baseCoordinate, agiVars>>

\* a role chip is clicked
RemoveRole(role) ==
  /\ pathname = "/simulation"
  /\ includes(targetRoles, role)
  /\ targetRoles' = removeRole(targetRoles, role)
  /\ ret' = [op |-> "removeRole", role |-> role]
  /\ UNCHANGED <<coordinate, edits, hashLog, pageVars, tableVars, callVars,
                 navVars, parameters, weights, expansionRules, roleInput,
                 result, baseCoordinate, agiVars>>

\* a Quick Add button is clicked: setTargetRoles(prev => [...prev, role])
QuickAdd(role) ==
  /\ pathname = "/simulation"
  /\ Len(targetRoles) < MaxRoles
  /\ role \in QuickAddRoles(targetRoles)
  /\ targetRoles' = Append(targetRoles, role)
  /\ ret' = [op |-> "quickAdd", role |-> role]
  /\ UNCHANGED <<coordinate, edits, hashLog, pageVars, tableVars, callVars,
                 navVars, parameters, weights, expansionRules, roleInput,
                 result, baseCoordinate, agiVars>>

SetExpansionRules(text) ==
  /\ pathname = "/simulation"
  /\ text # expansionRules
  /\ expansionRules' = text
  /\ ret' = [op |-> "setExpansionRules"]
  /\ UNCHANGED <<coordinate, edits, hashLog, pageVars, tableVars, callVars,
                 navVars, parameters, weights, targetRoles, roleInput, result,
                 baseCoordinate, agiVars>>

\* loadExample of the simulation page, and the pillar box cleared
SetBaseCoordinate(coord) ==
  /\ pathname = "/simulation"
  /\ coord # baseCoordinate
  /\ baseCoordinate' = coord
  /\ ret' = [op |-> "setBaseCoordinate"]
  /\ UNCHANGED <<coordinate, edits, hashLog, pageVars, tableVars, callVars,
                 navVars, parameters, weights, expansionRules, targetRoles,
                 roleInput, result, agiVars>>

\* Simulate is clicked and the rules parse: the request is sent
HandleSimulate ==
  /\ pathname = "/simulation"
  /\ ~SimulateDisabled(loading, baseCoordinate, targetRoles)
  /\ LET request == handleSimulateRequest(baseCoordinate, targetRoles,
                                          expansionRules)
     IN /\ request.ok
        /\ pending' = Append(pending, [handler |-> "handleSimulate",
                                       arg |-> request.v])
  /\ loading' = TRUE
  /\ ret' = [op |-> "handleSimulate", phase |-> "await", settled |-> FALSE]
  /\ UNCHANGED <<coordinate, edits, hashLog, translationText, validationResult,
                 tableVars, callVars, siteVars>>

\* Simulate is clicked and the rules do not parse
HandleSimulateInvalid ==
  /\ pathname = "/simulation"
  /\ ~SimulateDisabled(loading, baseCoordinate, targetRoles)
  /\ LET request == handleSimulateRequest(baseCoordinate, targetRoles,
                                          expansionRules)
         r == handleSimulateSettled(baseCoordinate, Rejected(request.err))
     IN /\ ~request.ok
        /\ result' = r.result
        /\ loading' = r.loading
  /\ ret' = [op |-> "handleSimulate", phase |-> "returned", settled |-> FALSE]
  /\ UNCHANGED <<coordinate, edits, hashLog, translationText, validationResult,
                 pending, tableVars, callVars, navVars, parameters, weights,
                 expansionRules, targetRoles, roleInput, baseCoordinate, agiVars>>

\* the catch block reads baseCoordinate as it was when Simulate was clicked
SettleSimulate(i) ==
  /\ pending[i].handler = "handleSimulate"
  /\ \E outcome \in SimulateOutcomes(pending[i].arg) :
       LET r == handleSimulateSettled(pending[i].arg.base_coordinate, outcome)
       IN /\ result' = r.result
          /\ loading' = r.loading
          /\ ret' = [op |-> "handleSimulate", phase |-> "returned",
                     settled |-> TRUE, status |-> outcome.status]
  /\ pending' = Without(pending, i)
  /\ UNCHANGED <<coordinate, edits, hashLog, translationText, validationResult,
                 tableVars, callVars, navVars, parameters, weights,
                 expansionRules, targetRoles, roleInput, baseCoordinate, agiVars>>

NextTools ==
  \/ \E text \in ParameterTexts : SetParameters(text)
  \/ \E text \in WeightTexts : SetWeights(text)
  \/ \E example \in Examples : LoadMathExample(example)
  \/ HandleCalculate
  \/ HandleCalculateInvalid
  \/ \E i \in DOMAIN pending : SettleCalculate(i)
  \/ \E text \in RuleTexts : SetExpansionRules(text)
  \/ \E coord \in Examples \cup { createEmptyCoordinate } :
       SetBaseCoordinate(coord)
  \/ HandleSimulate
  \/ HandleSimulateInvalid
  \/ \E i \in DOMAIN pending : SettleSimulate(i)

SpecTools == InitTools /\ [][NextTools]_vars

-----------------------------------------------------------------------------
(* State machine of the personas of the simulation page: roles are typed,   *)
(* added, quick-added and removed, the base coordinate is changed, and the  *)
(* simulation is run with the expansion rules as first rendered.            *)

InitRoles ==
  /\ InitTools
  /\ pathname = "/simulation"
  /\ coordinate = createEmptyCoordinate

NextRoles ==
  \/ \E text \in RoleTexts : SetRoleInput(text)
  \/ AddRole
  \/ \E i \in DOMAIN targetRoles : RemoveRole(targetRoles[i])
  \/ \E i \in DOMAIN predefinedRoles : QuickAdd(predefinedRoles[i])
  \/ \E coord \in { createEmptyCoordinate, FullCoordinate } :
       SetBaseCoordinate(coord)
  \/ HandleSimulate
  \/ \E i \in DOMAIN pending : SettleSimulate(i)

SpecRoles == InitRoles /\ [][NextRoles]_vars

-----------------------------------------------------------------------------
(* State machine of the AGI page: the query box is edited, a query is       *)
(* started from the button or with the Enter key, its four requests settle  *)
(* one after the other, a new session is opened, diagnostics are run.       *)

\* Number of handleAGIQuery invocations that reach the backend.
MaxQueries == 2

\* texts typed into the query box
QueryTexts == { << >>, << SPACE >>, << "analyze healthcare compliance" >> }

\* how the requests of handleAGIQuery can be fulfilled
AgiResponses(step) ==
  IF step = "enhancedSimulation"
  THEN { [answer |-> StrV(<< "42" >>), session_id |-> StrV(<< "s1" >>)],
         [answer |-> Absent, session_id |-> Absent] }
  ELSE { [endpoint |-> step] }

AgiFailure == Rejected(ApiError("503 Service Unavailable", "model offline"))

\* how Promise.all([getSystemMetrics(), aiHealthCheck()]) can settle
DiagnosticsOutcomes ==
  { Fulfilled([metrics |-> [cpu |-> "ok"], health |-> [status |-> "healthy"]]),
    Rejected(FetchError) }

InitAGI ==
  /\ coordinate = createEmptyCoordinate
  /\ edits = 0
  /\ ret = NoRet
  /\ hashLog = << >>
  /\ translationText = << >>
  /\ validationResult = Null
  /\ loading = [agi_query |-> FALSE, diagnostics |-> FALSE]
  /\ pending = << >>
  /\ TablesInit
  /\ CallsInit
  /\ NavAt("/advanced")
  /\ ToolsInit
  /\ AgiInit

SetAgiQuery(text) ==
  /\ pathname = "/advanced"
  /\ text # agiQuery
  /\ agiQuery' = text
  /\ ret' = [op |-> "setAgiQuery"]
  /\ UNCHANGED <<coordinate, edits, hashLog, pageVars, tableVars, callVars,
                 navVars, toolVars, currentConversation, conversations, runs,
                 now, simulationResult, systemMetrics, aiHealth>>

\* handleAGIQuery up to its first await
StartAGIQuery ==
  /\ trim(agiQuery) # << >>
  /\ now < MaxQueries
  /\ now' = now + 1
  /\ loading' = setLoadingState(loading, "agi_query", TRUE)
  /\ currentConversation' = updatedConversation(currentConversation, agiQuery, now')
  /\ agiQuery' = << >>
  /\ runs' = Append(runs,
                    [currentConversation |-> currentConversation,
                     agiQuery |-> agiQuery,
                     newConversation |->
                       IF currentConversation = Null
                       THEN newConversation(now') ELSE Null,
                     updatedConversation |-> currentConversation',
                     step |-> 1,
                     simulationResponse |-> Null])
  /\ ret' = [op |-> "handleAGIQuery", phase |-> "await", settled |-> FALSE]
  /\ UNCHANGED <<coordinate, edits, hashLog, translationText, validationResult,
                 pending, tableVars, callVars, navVars, toolVars, conversations,
                 simulationResult, systemMetrics, aiHealth>>

\* the Query AGI button, disabled={loading.agi_query || !agiQuery.trim()}
ClickQueryAGI ==
  /\ pathname = "/advanced"
  /\ ~loading.agi_query
  /\ StartAGIQuery

\* Enter in the query box: onKeyDown calls handleAGIQuery
PressEnter ==
  /\ pathname = "/advanced"
  /\ StartAGIQuery

\* Enter in a blank query box: if (!agiQuery.trim()) return
PressEnterBlank ==
  /\ pathname = "/advanced"
  /\ trim(agiQuery) = << >>
  /\ ret' = [op |-> "handleAGIQuery", phase |-> "returned", settled |-> FALSE]
  /\ UNCHANGED <<coordinate, edits, hashLog, pageVars, tableVars, callVars,
                 siteVars>>

\* one of the first three requests of a run is fulfilled
AwaitFulfilled(i) ==
  /\ runs[i].step < Len(AgiSteps)
  /\ \E response \in AgiResponses(AgiSteps[runs[i].step]) :
       runs' = [runs EXCEPT
                  ![i].step = @ + 1,
                  ![i].simulationResponse =
                    IF AgiSteps[runs[i].step] = "enhancedSimulation"
                    THEN response ELSE @]
  /\ ret' = [op |-> "handleAGIQuery", phase |-> "await", settled |-> FALSE]
  /\ UNCHANGED <<coordinate, edits, hashLog, pageVars, tableVars, callVars,
                 navVars, toolVars, agiQuery, currentConversation,
                 conversations, now, simulationResult, systemMetrics, aiHealth>>

\* what ret records of a run that has finished
RunReturned(run, status) ==
  [op |-> "handleAGIQuery", phase |-> "returned", settled |-> TRUE,
   status |-> status,
   before |-> MessagesOf(run.currentConversation),
   userMessage |-> run.updatedConversation.messages
                     [Len(run.updatedConversation.messages)],
   newConversation |-> run.newConversation]

\* the last request of a run is fulfilled: the try block runs to its end
FinishAGIQuery(i) ==
  /\ runs[i].step = Len(AgiSteps)
  /\ LET final == finalConversation(runs[i].updatedConversation,
                                    runs[i].simulationResponse, now)
     IN /\ currentConversation' = final
        /\ conversations' = conversationsUpdate(conversations, final)
  /\ simulationResult' = runs[i].simulationResponse
  /\ loading' = setLoadingState(loading, "agi_query", FALSE)
  /\ runs' = Without(runs, i)
  /\ ret' = RunReturned(runs[i], "fulfilled")
  /\ UNCHANGED <<coordinate, edits, hashLog, translationText, validationResult,
                 pending, tableVars, callVars, navVars, toolVars, agiQuery, now,
                 systemMetrics, aiHealth>>

\* a request of a run is rejected: the catch block
FailAGIQuery(i) ==
  /\ currentConversation' =
       errorConversation(runs[i].currentConversation, AgiFailure.reason, now)
  /\ loading' = setLoadingState(loading, "agi_query", FALSE)
  /\ runs' = Without(runs, i)
  /\ ret' = RunReturned(runs[i], "rejected")
  /\ UNCHANGED <<coordinate, edits, hashLog, translationText, validationResult,
                 pending, tableVars, callVars, navVars, toolVars, agiQuery,
                 conversations, now, simulationResult, systemMetrics, aiHealth>>

\* New Session: setCurrentConversation(null)
NewSession ==
  /\ pathname = "/advanced"
  /\ currentConversation # Null
  /\ currentConversation' = Null
  /\ ret' = [op |-> "newSession"]
  /\ UNCHANGED <<coordinate, edits, hashLog, pageVars, tableVars, callVars,
                 navVars, toolVars, agiQuery, conversations, runs, now,
                 simulationResult, systemMetrics, aiHealth>>

\* the Diagnostics button, disabled={loading.diagnostics}
HandleSystemDiagnostics ==
  /\ pathname = "/advanced"
  /\ ~loading.diagnostics
  /\ loading' = setLoadingState(loading, "diagnostics", TRUE)
  /\ pending' = Append(pending, [handler |-> "handleSystemDiagnostics",
                                 arg |-> Null])
  /\ ret' = [op |-> "handleSystemDiagnostics", phase |-> "await",
             settled |-> FALSE]
  /\ UNCHANGED <<coordinate, edits, hashLog, translationText, validationResult,
                 tableVars, callVars, siteVars>>

SettleDiagnostics(i) ==
  /\ pending[i].handler = "handleSystemDiagnostics"
  /\ \E outcome \in DiagnosticsOutcomes :
       /\ systemMetrics' = IF outcome.status = "fulfilled"
                           THEN outcome.value.metrics ELSE systemMetrics
       /\ aiHealth' = IF outcome.status = "fulfilled"
                      THEN outcome.value.health ELSE aiHealth
       /\ ret' = [op |-> "handleSystemDiagnostics", phase |-> "returned",
                  settled |-> TRUE, status |-> outcome.status]
  /\ loading' = setLoadingState(loading, "diagnostics", FALSE)
  /\ pending' = Without(pending, i)
  /\ UNCHANGED <<coordinate, edits, hashLog, translationText, validationResult,
                 tableVars, callVars, navVars, toolVars, agiQuery,
                 currentConversation, conversations, runs, now,
                 simulationResult>>

NextAGI ==
  \/ \E text \in QueryTexts : SetAgiQuery(text)
  \/ ClickQueryAGI
  \/ PressEnter
  \/ PressEnterBlank
  \/ \E i \in DOMAIN runs : AwaitFulfilled(i)
  \/ \E i \in DOMAIN runs : FinishAGIQuery(i)
  \/ \E i \in DOMAIN runs : FailAGIQuery(i)
  \/ NewSession
  \/ HandleSystemDiagnostics
  \/ \E i \in DOMAIN pending : SettleDiagnostics(i)

SpecAGI == InitAGI /\ [][NextAGI]_vars

-----------------------------------------------------------------------------
(* State machine of the loading flags: one of the four pages is open, its   *)
(* handlers are started, and every request that is in flight is eventually  *)
(* answered or fails.                                                       *)

Pages == { "/coordinate", "/math", "/simulation", "/advanced" }

InitLoading ==
  /\ pathname \in Pages
  /\ coordinate = IF pathname = "/math" THEN FullCoordinate
                  ELSE createEmptyCoordinate
  /\ baseCoordinate = IF pathname = "/simulation" THEN FullCoordinate
                      ELSE createEmptyCoordinate
  /\ loading = IF pathname = "/advanced"
               THEN [agi_query |-> FALSE, diagnostics |-> FALSE] ELSE FALSE
  /\ edits = 0
  /\ ret = NoRet
  /\ hashLog = << >>
  /\ translationText = << >>
  /\ validationResult = Null
  /\ pending = << >>
  /\ TablesInit
  /\ CallsInit
  /\ isDark = FALSE
  /\ localStorage = Null
  /\ darkClass = FALSE
  /\ mounted = TRUE
  /\ prefersDark = FALSE
  /\ toggles = << >>
  /\ parameters = DefaultParameters
  /\ weights = DefaultWeights
  /\ expansionRules = DefaultExpansionRules
  /\ targetRoles = DefaultRoles
  /\ roleInput = << >>
  /\ result = Null
  /\ AgiInit

\* the Validate and Translate buttons of the coordinate page
CoordinatePageStep ==
  /\ pathname = "/coordinate"
  /\ \/ \E text \in Texts : SetTranslationText(text)
     \/ HandleValidate
     \/ HandleTranslate

\* a request of the open page is answered or fails
RequestSettles(i) ==
  /\ i \in DOMAIN pending
  /\ \/ SettleValidate(i)
     \/ SettleTranslate(i)
     \/ SettleCalculate(i)
     \/ SettleSimulate(i)
     \/ SettleDiagnostics(i)

\* the request a run of handleAGIQuery waits for is answered or fails
RunSettles(i) ==
  /\ i \in DOMAIN runs
  /\ \/ AwaitFulfilled(i)
     \/ FinishAGIQuery(i)
     \/ FailAGIQuery(i)

NextLoading ==
  \/ CoordinatePageStep
  \/ \E text \in ParameterTexts : SetParameters(text)
  \/ HandleCalculate
  \/ HandleCalculateInvalid
  \/ \E text \in RuleTexts : SetExpansionRules(text)
  \/ HandleSimulate
  \/ HandleSimulateInvalid
  \/ \E text \in QueryTexts : SetAgiQuery(text)
  \/ ClickQueryAGI
  \/ PressEnter
  \/ HandleSystemDiagnostics
  \/ \E i \in 1..MaxPending : RequestSettles(i)
  \/ \E i \in 1..MaxQueries : RunSettles(i)

SpecLoading ==
  /\ InitLoading
  /\ [][NextLoading]_vars
  /\ \A i \in 1..MaxPending : WF_vars(RequestSettles(i))
  /\ \A i \in 1..MaxQueries : WF_vars(RunSettles(i))

-----------------------------------------------------------------------------
(* Properties *)

HasSymbol(v, sym) ==
  IF IsList(v) THEN \E i \in DOMAIN v.l : \E j \in DOMAIN v.l[i] : v.l[i][j] = sym
  ELSE IF IsStr(v) THEN \E j \in DOMAIN v.s : v.s[j] = sym
  ELSE FALSE

NoPipe(c) == \A key \in AxisKey : ~HasSymbol(c[key], PIPE)

NoDelimiters(c) ==
  \A key \in AxisKey : ~HasSymbol(c[key], PIPE) /\ ~HasSymbol(c[key], COMMA)

CountSym(s, sym) == Cardinality({ i \in DOMAIN s : s[i] = sym })

Pipes(n) == [i \in 1..n |-> PIPE]

EncodeReturned == ret.op \in {"encode", "nuremberg_number"}

\* sector is a string, honeycomb is absent or a list other than [] and [''],
\* and no other optional axis holds the empty string
CanonicalForm(c) ==
  /\ IsStr(c["sector"])
  /\ \/ IsAbsent(c["honeycomb"])
     \/ IsList(c["honeycomb"]) /\ c["honeycomb"].l \notin { << >>, << << >> >> }
  /\ \A key \in AxisKey \ {"pillar", "sector", "honeycomb"} :
       IsAbsent(c[key]) \/ (IsStr(c[key]) /\ c[key].s # << >>)

\* C1 as stated: for every valid coordinate with no '|' or ',' in any value,
\* decode(encode(C)) equals C field by field, including coordinates whose
\* honeycomb is empty and whose sector is an integer.
C1_RoundTripEveryCoordinate ==
  (ret.op = "decode" /\ validate(coordinate).valid /\ NoDelimiters(coordinate))
    => ret.out = coordinate

\* C1 amended: for every valid coordinate with no '|' or ',' in any value
\* whose sector is a string, whose honeycomb is absent or a list other than
\* [] and [''], and whose other optional axes are absent or non-empty,
\* decode(encode(C)) equals C field by field.
C1_RoundTripCanonical ==
  (/\ ret.op = "decode"
   /\ validate(coordinate).valid
   /\ NoDelimiters(coordinate)
   /\ CanonicalForm(coordinate))
    => ret.out = coordinate

C1_Witness ==
  /\ ret.op = "decode"
  /\ validate(coordinate).valid
  /\ NoDelimiters(coordinate)
  /\ CanonicalForm(coordinate)
  /\ IsList(coordinate["honeycomb"])
  /\ Len(coordinate["honeycomb"].l) = 2
  /\ ~IsAbsent(coordinate["temporal"])
  /\ ret.out = coordinate

\* C2: for every coordinate whose values contain no '|', encode returns a
\* string with exactly 15 '|' separators, i.e. 16 positional slots, and every
\* absent or empty axis contributes an empty slot.
C2_FifteenSeparators ==
  (EncodeReturned /\ NoPipe(coordinate)) =>
    /\ CountSym(ret.out, PIPE) = 15
    /\ Len(Split(ret.out, PIPE)) = 16
    /\ \A i \in 1..16 :
         coordinate[AXIS_KEYS[i]] \in { Absent, StrV(<< >>), ListV(<< >>) }
           => Split(ret.out, PIPE)[i] = << >>

C2_Witness ==
  /\ ret.op = "encode"
  /\ coordinate = createEmptyCoordinate
  /\ ret.out = Pipes(15)

CanonicalOrder ==
  << "pillar", "sector", "honeycomb", "branch", "node", "regulatory",
     "compliance", "compliance_level", "audit_requirements",
     "regulatory_framework", "role_knowledge", "role_sector",
     "role_regulatory", "role_compliance", "location", "temporal" >>

SlotText(v) ==
  IF IsAbsent(v) THEN << >>
  ELSE IF IsList(v) THEN Join(v.l, COMMA)
  ELSE IF IsInt(v) THEN Digits(v.n)
  ELSE v.s

HoneycombOnly ==
  [createEmptyCoordinate EXCEPT !["honeycomb"] = ListV(<< A, B >>)]

\* C3: slot i of the output is the value of the i-th axis in the canonical
\* order, honeycomb in slot 3 with its elements joined by ',' in their
\* original order; a coordinate with only honeycomb = ["A","B"] filled encodes
\* to two empty slots, 'A,B', then thirteen empty slots.
C3_OrderPreserving ==
  EncodeReturned =>
    /\ ret.out = Join([i \in 1..16 |-> SlotText(coordinate[CanonicalOrder[i]])],
                      PIPE)
    /\ NoPipe(coordinate) =>
         \A i \in 1..16 :
           Split(ret.out, PIPE)[i] = SlotText(coordinate[CanonicalOrder[i]])
    /\ coordinate = HoneycombOnly =>
         ret.out = Pipes(2) \o << "A", COMMA, "B" >> \o Pipes(13)

C3_Witness ==
  /\ ret.op = "encode"
  /\ coordinate = HoneycombOnly
  /\ ret.out = Pipes(2) \o << "A", COMMA, "B" >> \o Pipes(13)

OrEmpty(v) == IF IsAbsent(v) THEN StrV(<< >>) ELSE v

\* C5: unified_system_id depends only on regulatory, compliance and
\* compliance_level (absent compliance_level counting as ''): two coordinates
\* that agree on these three axes have the same unified_system_id.
C5_UsiFromComplianceAxesOnly ==
  \A i, j \in DOMAIN hashLog :
    (/\ hashLog[i].fn = "unified_system_id"
     /\ hashLog[j].fn = "unified_system_id"
     /\ hashLog[i].self["regulatory"] = hashLog[j].self["regulatory"]
     /\ hashLog[i].self["compliance"] = hashLog[j].self["compliance"]
     /\ OrEmpty(hashLog[i].self["compliance_level"])
          = OrEmpty(hashLog[j].self["compliance_level"]))
      => hashLog[i].out = hashLog[j].out

FilledValue(v) == v \notin { Absent, StrV(<< >>), ListV(<< >>) }

\* C6: get_axis_completeness_ratio equals get_filled_axes_count divided by 16,
\* the number of canonical axis keys, and lies in [0,1]: 0 with no filled
\* axis, 1 with all 16 axes filled.
C6_RatioIsFilledOverSixteen ==
  ret.op = "completeness" =>
    /\ Len(AXIS_KEYS) = 16
    /\ ret.out.den = 16
    /\ ret.out.num = ret.filled
    /\ 0 <= ret.out.num /\ ret.out.num <= ret.out.den
    /\ (\A key \in AxisKey : ~FilledValue(coordinate[key])) => ret.out.num = 0
    /\ (\A key \in AxisKey : FilledValue(coordinate[key]))
         => ret.out.num = ret.out.den

C6_Witness ==
  /\ ret.op = "completeness"
  /\ \A key \in AxisKey : FilledValue(coordinate[key])
  /\ ret.filled = 16
  /\ ret.out = [num |-> 16, den |-> 16]

FillStep ==
  \E key \in AxisKey :
    /\ ~FilledValue(coordinate[key])
    /\ FilledValue(coordinate'[key])
    /\ \A other \in AxisKey \ {key} : coordinate'[other] = coordinate[other]

\* C7: every step that fills one previously unfilled axis with a non-empty
\* value and leaves the other axes unchanged raises
\* get_axis_completeness_ratio by exactly 1/16, so it never decreases.
C7_FillRaisesRatioBySixteenth ==
  [][FillStep =>
       LET before == get_axis_completeness_ratio(coordinate)
           after == get_axis_completeness_ratio(coordinate')
       IN /\ after.num * before.den >= before.num * after.den
          /\ 16 * (after.num * before.den - before.num * after.den)
               = before.den * after.den]_vars

C7_Witness ==
  /\ ret.op = "updateCoordinate"
  /\ ~ret.wasFilled
  /\ FilledValue(coordinate[ret.key])
  /\ edits = 2
  /\ get_axis_completeness_ratio(coordinate) = [num |-> 2, den |-> 16]

NonEmpty(v) == v \notin { Absent, StrV(<< >>) }

\* C8: validate returns {valid: true} with no errors for every coordinate
\* whose pillar and sector are non-empty and whose temporal is absent,
\* whatever the other axes hold and whether or not pillar matches PLxx.x.x.
C8_ValidWithoutTemporal ==
  (/\ ret.op = "validate"
   /\ NonEmpty(coordinate["pillar"])
   /\ NonEmpty(coordinate["sector"])
   /\ IsAbsent(coordinate["temporal"]))
    => ret.out = [valid |-> TRUE]

C8_Witness ==
  /\ ret.op = "validate"
  /\ coordinate["pillar"] = StrV(<< "natural language" >>)
  /\ NonEmpty(coordinate["sector"])
  /\ IsAbsent(coordinate["temporal"])
  /\ ret.out = [valid |-> TRUE]

\* a trailing 'Z' normalized to '+00:00'
NormalizeZSuffix(s) ==
  IF Len(s) > 0 /\ s[Len(s)] = ZULU
  THEN SubSeq(s, 1, Len(s) - 1) \o << OFFSET >>
  ELSE s

IsIso8601(v) == IsStr(v) /\ fromisoformat(NormalizeZSuffix(v.s))

ErrorsOf(report) == IF report.valid THEN << >> ELSE report.errors

Names(report, axis) ==
  \E i \in DOMAIN ErrorsOf(report) : ErrorsOf(report)[i].axis = axis

\* C9: validate returns valid=false for every coordinate whose temporal is
\* present and is not an ISO-8601 datetime after normalizing a trailing 'Z'
\* to '+00:00', and the errors then name the temporal axis.
C9_NonIsoTemporalRejected ==
  (/\ ret.op = "validate"
   /\ ~IsAbsent(coordinate["temporal"])
   /\ ~IsIso8601(coordinate["temporal"]))
    => (~ret.out.valid /\ Names(ret.out, "temporal"))

\* the temporal check as validate_temporal performs it
TemporalCheckFails(v) ==
  ~IsAbsent(v) /\ ~fromisoformat(replace(toString(v), ZULU, OFFSET))

ViolatedChecks(c) ==
  { axis \in {"pillar", "sector", "temporal"} :
      \/ axis \in {"pillar", "sector"} /\ ~NonEmpty(c[axis])
      \/ axis = "temporal" /\ TemporalCheckFails(c[axis]) }

\* C10: validate reports all violations rather than failing fast: the errors
\* list holds one entry for each violated check (empty pillar, empty sector,
\* malformed temporal), not only the first one found.
C10_AllViolationsReported ==
  ret.op = "validate" =>
    /\ \A axis \in ViolatedChecks(coordinate) : Names(ret.out, axis)
    /\ Len(ErrorsOf(ret.out)) = Cardinality(ViolatedChecks(coordinate))
    /\ ret.out.valid <=> ViolatedChecks(coordinate) = {}

C10_Witness ==
  /\ ret.op = "validate"
  /\ ViolatedChecks(coordinate) = {"pillar", "sector", "temporal"}
  /\ ~ret.out.valid
  /\ Len(ret.out.errors) = 3
  /\ \A axis \in {"pillar", "sector", "temporal"} : Names(ret.out, axis)

IsReport(r) == "valid" \in DOMAIN r /\ r.valid \in BOOLEAN

Returned(handler) == ret.op = handler /\ ret.phase = "returned"

\* C11: validate never raises: for every coordinate, including one with a
\* missing or empty pillar or sector and one with a malformed temporal, a
\* validation ends with a report {valid, errors}, never with an exception.
C11_ValidateNeverRaises ==
  Returned("handleValidate") =>
    /\ ~ret.threw
    /\ IsReport(validationResult)
    /\ IsReport(validate(ret.arg))

C11_Witness ==
  /\ Returned("handleValidate")
  /\ IsAbsent(ret.arg["pillar"])
  /\ ret.arg["temporal"] = StrV(<< GARBAGE >>)
  /\ ~ret.threw
  /\ validationResult = validate(ret.arg)
  /\ ~validationResult.valid

WellFormedReport(r) ==
  /\ IsReport(r)
  /\ r.valid => "errors" \notin DOMAIN r
  /\ ~r.valid => ("errors" \in DOMAIN r /\ Len(r.errors) > 0)

\* C13: the errors array is present only when the report is invalid:
\* valid=true carries no errors and valid=false carries a non-empty list,
\* for the reports of validate and for every validationResult the page
\* stores from handleValidate and handleTranslate.
C13_ErrorsOnlyWhenInvalid ==
  /\ validationResult # Null => WellFormedReport(validationResult)
  /\ Returned("handleValidate") => WellFormedReport(validate(ret.arg))

C13_Witness ==
  /\ Returned("handleTranslate")
  /\ validationResult # Null
  /\ ~validationResult.valid
  /\ Len(validationResult.errors) = 3

EncodeCalls == { i \in DOMAIN hashLog : hashLog[i].fn = "encode" }

\* the rendered contents of the axes differ
ContentsDiffer(c, d) ==
  \E key \in AxisKey : SlotText(c[key]) # SlotText(d[key])

\* the values of a non-empty axis differ
ValuesDiffer(c, d) ==
  \E key \in AxisKey :
    (FilledValue(c[key]) \/ FilledValue(d[key])) /\ c[key] # d[key]

\* encode performs no escaping: ["A,B"] and ["A","B"] encode alike, and so
\* do values that move a '|' from one axis to the next
DelimitersCollide ==
  \A i, j \in EncodeCalls :
    /\ (/\ hashLog[i].self["honeycomb"] = ListV(<< << "A", COMMA, "B" >> >>)
        /\ hashLog[j].self =
             [hashLog[i].self EXCEPT !["honeycomb"] = ListV(<< A, B >>)])
         => hashLog[i].out = hashLog[j].out
    /\ (/\ hashLog[i].self = PipedCoordinate
        /\ hashLog[j].self =
             [PipedCoordinate EXCEPT !["regulatory"] = StrV(A),
                                     !["compliance"] = StrV(<< "B", PIPE, "B" >>)])
         => hashLog[i].out = hashLog[j].out

\* C14 as stated: encode is not injective on values that hold a delimiter,
\* while coordinates with no '|' or ',' in any value and distinct non-empty
\* field values always encode to distinct strings.
C14_DistinctValuesDistinctStrings ==
  /\ DelimitersCollide
  /\ \A i, j \in EncodeCalls :
       (/\ NoDelimiters(hashLog[i].self)
        /\ NoDelimiters(hashLog[j].self)
        /\ ValuesDiffer(hashLog[i].self, hashLog[j].self))
         => hashLog[i].out # hashLog[j].out

\* C14 amended: encode is not injective on values that hold a delimiter,
\* while coordinates with no '|' or ',' in any value whose axes differ in
\* their rendered text (a sector number and the string of its digits, and
\* a honeycomb of [''] and an empty one, render alike) always encode to
\* distinct strings.
C14_DistinctTextsDistinctStrings ==
  /\ DelimitersCollide
  /\ \A i, j \in EncodeCalls :
       (/\ NoDelimiters(hashLog[i].self)
        /\ NoDelimiters(hashLog[j].self)
        /\ ContentsDiffer(hashLog[i].self, hashLog[j].self))
         => hashLog[i].out # hashLog[j].out

C14_Witness ==
  \E i, j \in EncodeCalls :
    /\ hashLog[i].self["honeycomb"] = ListV(<< << "A", COMMA, "B" >> >>)
    /\ hashLog[j].self["honeycomb"] = ListV(<< A, B >>)
    /\ hashLog[i].self # hashLog[j].self
    /\ hashLog[i].out = hashLog[j].out

\* a raw mapping that gives pillar and sector, at least one of them empty
EmptyRequired(raw) ==
  /\ RequiredFields \subseteq DOMAIN raw
  /\ \E key \in RequiredFields : raw[key] = StrV(<< >>)

WellFormedTemporal(raw) ==
  "temporal" \in DOMAIN raw => IsIso8601(raw["temporal"])

StructuralError(report, axis) ==
  \E i \in DOMAIN ErrorsOf(report) :
    /\ ErrorsOf(report)[i].axis = axis
    /\ ErrorsOf(report)[i].msg \in { "pillar must not be empty",
                                     "sector must not be empty" }

\* C15: a raw mapping with an empty pillar or sector and no malformed
\* temporal is accepted by parse, while validate on the resulting coordinate
\* reports a structural error for each empty required field.
C15_ParseAcceptsWhatValidateReports ==
  /\ (ret.op = "parse" /\ EmptyRequired(ret.raw) /\ WellFormedTemporal(ret.raw))
       => /\ ret.out.ok
          /\ \A key \in RequiredFields : ret.out.v[key] = ret.raw[key]
  /\ ret.op = "validate" =>
       \A key \in RequiredFields :
         coordinate[key] = StrV(<< >>)
           => (~ret.out.valid /\ StructuralError(ret.out, key))

C15_Witness ==
  /\ ret.op = "validate"
  /\ coordinate["pillar"] = StrV(<< >>)
  /\ coordinate["sector"] = StrV(<< >>)
  /\ coordinate["honeycomb"] = ListV(<< A, B >>)
  /\ coordinate["temporal"] = StrV(ValidTemporal)
  /\ StructuralError(ret.out, "pillar")
  /\ StructuralError(ret.out, "sector")
  /\ Len(ret.out.errors) = 2

KnownKeys(raw) == [key \in DOMAIN raw \cap AxisKey |-> raw[key]]

\* C16: keys that are not canonical axis names do not appear in and do not
\* affect the coordinate parse returns, and parse fails with ValidationError
\* if and only if temporal is present and not ISO-8601 parseable.
C16_ParseFailsOnlyOnTemporal ==
  ret.op = "parse" =>
    /\ ret.out.ok => DOMAIN ret.out.v = AxisKey
    /\ ret.out = parse(KnownKeys(ret.raw))
    /\ ~ret.out.ok <=>
         ("temporal" \in DOMAIN ret.raw /\ ~IsIso8601(ret.raw["temporal"]))

\* C17: the axis metadata table has exactly one record per canonical axis
\* key, the record of key k carries index equal to the 1-based position of
\* k in the canonical order (pillar = 1 ... temporal = 16), and no operation
\* changes a record after initialization.
C17_MetadataMatchesAxisOrder ==
  /\ \A key \in AxisKey :
       Cardinality({ i \in DOMAIN axisMetadata : axisMetadata[i].key = key }) = 1
  /\ \A i \in DOMAIN axisMetadata :
       /\ axisMetadata[i].key \in AxisKey
       /\ axisMetadata[i].index = IndexOf(axisMetadata[i].key)
  /\ axisMetadata = AXIS_METADATA

CallReturned(id) == calls[id].pc = Len(AXIS_KEYS) + 2

RECURSIVE PiecesSoFar(_, _, _)
\* what the first n iterations of a call on its own input add to its list
PiecesSoFar(op, arg, n) ==
  IF n = 0 THEN << >>
  ELSE PiecesSoFar(op, arg, n - 1) \o CallPiece(op, arg, n)

ReadOnlyOps == { "encode", "as_list", "validate", "completeness" }

C20_CountsNonEmptyAxes ==
  ret.op = "completeness" =>
    /\ ret.filled = Cardinality({ key \in AxisKey : FilledValue(coordinate[key]) })
    /\ coordinate = createEmptyCoordinate => ret.filled = 0
    /\ coordinate = BlankCoordinate => ret.filled = 0

C20_Witness ==
  /\ ret.op = "completeness"
  /\ coordinate = createEmptyCoordinate
  /\ ret.filled = 0

\* C21: as_list returns, for every coordinate, a list of exactly 16 entries
\* in canonical axis order: entry i is the value of the i-th axis, a missing
\* axis is an absent (null) entry and is never left out, so the length does
\* not depend on how many axes are filled.
C21_AsListSixteenInOrder ==
  ret.op = "as_list" =>
    /\ Len(ret.out) = 16
    /\ \A i \in 1..16 : ret.out[i] = coordinate[CanonicalOrder[i]]
    /\ as_list(coordinate) = ret.out

C21_Witness ==
  /\ ret.op = "as_list"
  /\ coordinate = ExampleCoordinate(IntV(54))
  /\ ret.out[3] = Absent
  /\ ret.out[16] = Absent
  /\ Len(ret.out) = 16

Cleared(value) == value \in { StrV(<< >>), ListV(<< >>) }

\* C30: updateCoordinate(key, value) changes only the axis named key and
\* leaves every other axis unchanged; an empty-string value is stored as
\* absent, any other value as given, so a field cleared through the builder
\* encodes to an empty slot and the edited axis never holds the empty string.
C30_UpdateTouchesOneAxis ==
  [][ret'.op = "updateCoordinate" =>
       /\ \A key \in AxisKey \ { ret'.key } : coordinate'[key] = coordinate[key]
       /\ coordinate'[ret'.key] # StrV(<< >>)
       /\ ret'.value = StrV(<< >>) => coordinate'[ret'.key] = Absent
       /\ ret'.value # StrV(<< >>) => coordinate'[ret'.key] = ret'.value
       /\ Cleared(ret'.value) =>
            /\ NurembergSlot(coordinate'[ret'.key]) = << >>
            /\ NoPipe(coordinate') =>
                 Split(coordinateToNuremberg(coordinate'), PIPE)
                   [IndexOf(ret'.key)] = << >>]_vars

C30_Witness ==
  /\ ret.op = "updateCoordinate"
  /\ ret.key = "pillar"
  /\ ret.value = StrV(<< >>)
  /\ ret.wasFilled
  /\ coordinate["pillar"] = Absent
  /\ coordinate["sector"] = StrV(<< "5", "4" >>)

ShowsValid(r) == r # Null /\ r.valid

\* C25: on the coordinate page, whenever validationResult.valid is true the
\* coordinate held by the page is the one handleValidate sent to the backend
\* and got accepted: a result with valid = true appears only when
\* handleValidate returns for the coordinate the page holds, and stays only
\* while that coordinate stays.
C25_ValidMeansValidated ==
  [][ShowsValid(validationResult') =>
       \/ /\ ret'.op = "handleValidate"
          /\ ret'.phase = "returned"
          /\ ret'.arg = coordinate'
       \/ /\ ShowsValid(validationResult)
          /\ validationResult' = validationResult
          /\ coordinate' = coordinate]_vars

\* field texts that are not JSON
NotJson ==
  { << LBRACE >>, << LBRACKET, "1.0", COMMA, RBRACKET >>,
    << LBRACE, "\"max_expansions\"", "5", RBRACE >> }

Invoked(handler) == ret.op = handler /\ ~ret.settled

\* C27: on the math and simulation pages a parameters, weights or
\* expansion-rules field that does not hold JSON is handled by the page: no
\* request is sent, the page stores an error result (math: result null,
\* metadata.error true, an explanation naming the field; simulation: score 0,
\* expanded_coordinate equal to the base coordinate, the message in
\* axis_mapping_log), the flag is off and the coordinate is as before.
C27_InvalidJsonHandledLocally ==
  [][/\ (Invoked("handleCalculate")'
          /\ (parameters \in NotJson \/ weights \in NotJson)) =>
         /\ pending' = pending
         /\ coordinate' = coordinate
         /\ loading' = FALSE
         /\ result' =
              [operation |-> "MCW",
               result |-> Null,
               explanation |->
                 << IF parameters \in NotJson THEN "Invalid parameters JSON"
                    ELSE "Invalid weights array" >>,
               metadata |-> [error |-> TRUE]]
     /\ (Invoked("handleSimulate")' /\ expansionRules \in NotJson) =>
         /\ pending' = pending
         /\ baseCoordinate' = baseCoordinate
         /\ loading' = FALSE
         /\ result'.persona_activation_score = 0
         /\ result'.expanded_coordinate = baseCoordinate
         /\ result'.axis_mapping_log =
              << << "Invalid expansion rules JSON" >> >>]_vars

C27_Witness ==
  /\ ret.op = "handleCalculate"
  /\ ret.phase = "returned"
  /\ ~ret.settled
  /\ parameters = << SPACE >>
  /\ weights \in NotJson
  /\ result # Null
  /\ result.explanation = << "Invalid weights array" >>
  /\ pending = << >>
  /\ coordinate = FullCoordinate

NoDuplicates(list) ==
  \A i, j \in DOMAIN list : i # j => list[i] # list[j]

CanSimulate(base, roles) ==
  /\ roles # << >>
  /\ base["pillar"] \notin { Absent, StrV(<< >>) }
  /\ base["sector"] \notin { Absent, StrV(<< >>) }

\* C28: on the simulation page, after any sequence of addRole, quick-add and
\* removeRole operations targetRoles holds no role twice and no role that is
\* empty or only white space; removeRole(r) leaves no occurrence of r; a
\* simulation request starts only while targetRoles is non-empty and the
\* pillar and sector of the base coordinate are non-empty.
C28_RolesDistinctAndRequestGuarded ==
  /\ [](/\ NoDuplicates(targetRoles)
        /\ \A i \in DOMAIN targetRoles :
             targetRoles[i] # << >> /\ \E k \in DOMAIN targetRoles[i] :
                                         targetRoles[i][k] # SPACE
        /\ \A i \in DOMAIN pending :
             CanSimulate(pending[i].arg.base_coordinate,
                         pending[i].arg.target_roles))
  /\ [][/\ ret'.op = "removeRole" =>
            \A i \in DOMAIN targetRoles' : targetRoles'[i] # ret'.role
        /\ Len(pending') > Len(pending) =>
            CanSimulate(baseCoordinate, targetRoles)]_vars

C28_Witness ==
  /\ ret.op = "addRole"
  /\ ret.role = << "Data Scientist" >>
  /\ targetRoles =
       << << "Healthcare Expert" >>, << "Software Engineer" >>,
          << "Data Scientist" >> >>
  /\ pending # << >>

\* C29: in the navigation bar, once the mount effect has run and the theme
\* has been toggled, isDark is true exactly when localStorage 'theme' is
\* "dark" and exactly when the document root has the 'dark' class; each
\* toggleTheme flips all three together, and two toggles in a row restore
\* the state before them.
C29_ThemeStoresAgree ==
  /\ []((mounted /\ toggles # << >>) =>
         /\ isDark <=> (localStorage = StrV(<< "dark" >>))
         /\ ~isDark <=> (localStorage = StrV(<< "light" >>))
         /\ isDark <=> darkClass
         /\ toggles[Len(toggles)] = ThemeState(isDark, localStorage, darkClass)
         /\ \A i \in 3..Len(toggles) : toggles[i] = toggles[i - 2])
  /\ [][ret'.op = "toggleTheme" =>
         /\ isDark' = ~isDark
         /\ darkClass' = ~darkClass
         /\ (localStorage' = StrV(<< "dark" >>)) <=> ~isDark
         /\ (localStorage' = StrV(<< "light" >>)) <=> isDark]_vars

C29_Witness ==
  /\ mounted
  /\ Len(toggles) = 3
  /\ toggles[3] = toggles[1]
  /\ isDark
  /\ darkClass
  /\ localStorage = StrV(<< "dark" >>)
  /\ ~prefersDark

\* a run of handleAGIQuery has just finished
QueryFinished == ret.op = "handleAGIQuery" /\ ret.settled

\* C22: when handleAGIQuery finishes, the messages of the current
\* conversation are the messages it had before the query, then the user's
\* message, then exactly one reply, whose role is 'agi' on success and
\* 'system' on failure; the status is 'completed'.
C22_ReplyFollowsUserMessage ==
  QueryFinished =>
    /\ Len(currentConversation.messages) = Len(ret.before) + 2
    /\ SubSeq(currentConversation.messages, 1, Len(ret.before)) = ret.before
    /\ currentConversation.messages[Len(ret.before) + 1] = ret.userMessage
    /\ currentConversation.messages[Len(ret.before) + 2].role =
         (IF ret.status = "fulfilled" THEN "agi" ELSE "system")
    /\ currentConversation.status = "completed"

\* C23: conversations holds one entry per session: a query started with no
\* current conversation ends with a current conversation that carries the
\* id generated for it at the start of the query, and when such a query
\* succeeds its conversation is appended to conversations, the entries of
\* earlier sessions staying as they were.
C23_OneEntryPerSession ==
  /\ []((QueryFinished /\ ret.newConversation # Null) =>
         currentConversation.id = ret.newConversation.id)
  /\ [][(QueryFinished' /\ ret'.newConversation # Null
           /\ ret'.status = "fulfilled") =>
         conversations' = Append(conversations, currentConversation')]_vars

\* C24: at most one handleAGIQuery run is in flight at any time, and no run
\* begins while loading.agi_query is true, whether from the Query AGI button
\* or from the Enter key.
C24_OneQueryInFlight ==
  /\ [](Len(runs) <= 1)
  /\ [][Len(runs') > Len(runs) => ~loading.agi_query]_vars

\* the loading flags of the open page
FlagOn(flag) ==
  IF pathname = "/advanced" THEN flag # "loading" /\ loading[flag]
  ELSE flag = "loading" /\ loading

FlagOf(handler) ==
  CASE handler = "handleAGIQuery" -> "agi_query"
    [] handler = "handleSystemDiagnostics" -> "diagnostics"
    [] OTHER -> "loading"

LoadingHandlers ==
  { "handleValidate", "handleTranslate", "handleCalculate", "handleSimulate",
    "handleAGIQuery", "handleSystemDiagnostics" }

\* the handler has come to its end after its request settled, or after the
\* parsing of a field failed
HandlerEnded ==
  /\ ret.op \in LoadingHandlers
  /\ ret.phase = "returned"
  /\ ret.settled \/ ret.op \in { "handleCalculate", "handleSimulate" }

====
